---- MODULE Spec2Model ----
(***************************************************************************)
(* Verification model of the buckling/Riks analysis pipeline:              *)
(*   src/validation/run_analysis.py   orchestration and result extraction  *)
(*   src/validation/export_images.py  peak-LPF frame selection             *)
(*   src/validation/cleanup.py        scratch-folder cleanup               *)
(*                                                                         *)
(* Numbers.  Eigenvalues and LPF values are integers.  For integers the    *)
(* float tests of the code read: abs(x) > 1e-6 is x # 0, abs(x - i) < 0.1  *)
(* is x = i, x <= 1e-6 is x <= 0.  Moving averages are kept exactly as     *)
(* multiples of 1/6 (window sizes are 2 and 3), ratios 0.6 and 0.8 as      *)
(* tenths.                                                                 *)
(*                                                                         *)
(* Optional values (None, a missing file) are sequences of length 0 or 1.  *)
(***************************************************************************)
EXTENDS Integers, Sequences, FiniteSets, TLC

VARIABLES
    \* ---- extract_buckling_results, called on its own ----
    eigOdb,       \* the result archive and solver log handed to the extractor
    eigDir,       \* the results folder: [csv, warning]
    eigPc,        \* "call" before the call, "done" after it returned
    \* ---- export_riks_images / find_peak_lpf_frame_index ----
    pkIn,         \* [y, t, frames]: LPF history values, times, frame values
    pkOut,        \* [res, rendered]: the tuple returned, the frames rendered
    pkPc,
    \* ---- cleanup_case_work_dir, called on its own ----
    clCase,       \* the folder pair of the case
    clArgs,       \* [min_png_count, keep_work_files]
    clOut,        \* [warning, returned]
    clPc,
    \* ---- run_multicase_analysis ----
    cases,            \* the load cases of the parameter set, in order
    KEEP_WORK_FILES,  \* module option of run_analysis.py
    ci,               \* index of the case being processed
    pc,               \* position inside the case / the run
    all_results,      \* list of result rows collected so far
    summary,          \* None before write_summary, Some(rows) after
    fs,               \* per case name: the folder pair and the archives
    odbOut,           \* the archive the job that just completed left behind
    log,              \* what the run printed: case starts, errors, warnings
    cwd,              \* os.getcwd(): WORK_DIR or the scratch folder of a case
    original_cwd,     \* the folder the phase entered last recorded at its start
    steps,            \* the steps taken so far, in order: [ev, i]
    jobs,             \* the jobs submitted to the engine and not yet ended
    \* ---- normalize_params and get_enabled_cases, called on their own ----
    nmRow,        \* the raw row: the list of its (key, value) items
    nmOut,        \* None, or Some(what normalize_params(row) returned/raised)
    nmTwin,       \* the same for the row written with canonical names
    nmCases,      \* the same for get_enabled_cases on the normalized record
    nmAgain,      \* the same for normalize_params on the normalized record
    nmPc,
    \* ---- main: the batch of parameter sets ----
    btFile,       \* None when the file is absent, Some(rows) otherwise
    params_list,  \* what read_parameters_from_csv returned
    btI,          \* index of the parameter set being processed
    btRuns,       \* the calls of run_multicase_analysis:
                  \* [p, result, model_name]
    btPc,
    \* ---- export_case_images up to the start of the viewer ----
    vwArgs,       \* [max_wait_sec, check_interval]
    vwEnv,        \* [script, odb]: export script found, an archive found
    attempt,      \* loop variable of wait_for_viewer_lock
    vwSeen,       \* viewer_running of each poll, in order
    vwRet,        \* None, or Some(what wait_for_viewer_lock returned)
    vwPc,
    \* ---- run_riks_analysis 1065-1083 and insert_keyword_smart ----
    kbBlocks,     \* model.keywordBlock.sieBlocks
    kbArgs,       \* [p, anchor_text, position] of the call
    kbOut,        \* None, or Some([raised, warning, content])
    kbPc,
    \* ---- extract_riks_results: the load-history table ----
    crvIn,        \* per history output name, the length of its data
    crvOut,       \* None, or Some([rows, raised])
    crvPc

vars == <<eigOdb, eigDir, eigPc, pkIn, pkOut, pkPc,
          clCase, clArgs, clOut, clPc,
          cases, KEEP_WORK_FILES, ci, pc, all_results, summary, fs, odbOut,
          log, cwd, original_cwd, steps, jobs,
          nmRow, nmOut, nmTwin, nmCases, nmAgain, nmPc,
          btFile, params_list, btI, btRuns, btPc,
          vwArgs, vwEnv, attempt, vwSeen, vwRet, vwPc,
          kbBlocks, kbArgs, kbOut, kbPc, crvIn, crvOut, crvPc>>

eigVars  == <<eigOdb, eigDir, eigPc>>
pkVars   == <<pkIn, pkOut, pkPc>>
clVars   == <<clCase, clArgs, clOut, clPc>>
orchVars == <<cases, KEEP_WORK_FILES, ci, pc, all_results, summary, fs,
              odbOut, log, cwd, original_cwd, steps, jobs>>
parVars  == <<nmRow, nmOut, nmTwin, nmCases, nmAgain, nmPc>>
batVars  == <<btFile, params_list, btI, btRuns, btPc>>
vwVars   == <<vwArgs, vwEnv, attempt, vwSeen, vwRet, vwPc>>
kbVars   == <<kbBlocks, kbArgs, kbOut, kbPc>>
crvVars  == <<crvIn, crvOut, crvPc>>
lateVars == <<kbVars, crvVars>>
frontVars == <<parVars, batVars, vwVars, lateVars>>

\* ------------------------------------------------------------------------
\* Bounds of the model
\* ------------------------------------------------------------------------
MaxModes == 3        \* non-initial frames of the buckling step
MaxSeriesLen == 5    \* length of the generic LPF series
MaxRise == 3         \* points of the rise before the plateau
MaxTail == 3         \* points after the drop
MaxCases == 2        \* load cases of one parameter set
MaxPng == 2          \* images in a results folder
MaxFields == 2       \* items of a raw row of free fields
MaxTokens == 2       \* comma-separated tokens of a load-case selector
MaxRows == 2         \* rows of the batch input file
MaxWaitSec == 6      \* max_wait_sec of wait_for_viewer_lock
MaxInterval == 3     \* check_interval of wait_for_viewer_lock

\* ------------------------------------------------------------------------
\* Helpers
\* ------------------------------------------------------------------------
Abs(x) == IF x < 0 THEN -x ELSE x

None == <<>>
Some(x) == <<x>>

\* Folders are paths: the folder of the script (line 60-65, the current
\* folder at the start) and, below it, work/{case}.
WORK_DIR == <<"WORK_DIR">>

\* ========================================================================
\* extract_buckling_results  (run_analysis.py 839-991)
\* ========================================================================

\* Noise floor of the per-frame test and of the batch validation.
EIGEN_MIN_ABS == 100
\* Distance to the mode number below which the batch validation suspects
\* a value.
EIGEN_MODE_GAP == 10

\* Per-frame test of tier 1 (frameValue): line 872-876.
Tier1Accepts(i, fv) ==
    /\ fv # None
    /\ fv[1] # 0
    /\ ~(fv[1] = i \/ Abs(fv[1]) < EIGEN_MIN_ABS)

\* Tier 1: for i in range(1, len(frames)), frames[1] is the initial frame
\* (python index 0), so python index i is frames[i + 1].
RECURSIVE Tier1From(_, _)
Tier1From(frames, i) ==
    IF i > Len(frames) - 1 THEN <<>>
    ELSE (IF Tier1Accepts(i, frames[i + 1].fv)
          THEN << <<i, frames[i + 1].fv[1]>> >> ELSE <<>>)
         \o Tier1From(frames, i + 1)

Tier1(frames) == Tier1From(frames, 1)

\* Tier 2 (description regex): line 883-895.
RECURSIVE Tier2From(_, _)
Tier2From(frames, i) ==
    IF i > Len(frames) - 1 THEN <<>>
    ELSE (IF frames[i + 1].desc # None /\ frames[i + 1].desc[1] # 0
          THEN << <<i, frames[i + 1].desc[1]>> >> ELSE <<>>)
         \o Tier2From(frames, i + 1)

Tier2(frames) == Tier2From(frames, 1)

\* Batch validation: line 903-912.  TRUE when the batch is discarded.
Suspicious_never(batch) == FALSE

Suspicious_smallAndClose(batch) ==
    \A k \in 1..Len(batch) :
        /\ Abs(batch[k][2]) < EIGEN_MIN_ABS
        /\ Abs(batch[k][2] - batch[k][1]) <= EIGEN_MODE_GAP

Suspicious(batch) ==
    \A k \in 1..Len(batch) :
        ~(Abs(batch[k][2]) > EIGEN_MIN_ABS
          /\ Abs(batch[k][2] - batch[k][1]) > EIGEN_MODE_GAP)

\* Tiers 1 and 2 with the validation: line 856-921.  An archive that cannot
\* be opened (openOdb or steps['Step-1'] raising) leaves the list empty.
OdbEigenvalues(odb) ==
    IF ~odb.opens THEN <<>>
    ELSE LET t1 == Tier1(odb.frames)
             b  == IF Len(t1) = 0 THEN Tier2(odb.frames) ELSE t1
         IN  IF Len(b) > 0 /\ Suspicious(b) THEN <<>> ELSE b

\* Tier 3, the solver log: line 924-968.  The log is a sequence of lines,
\* each of kind "header" (holds MODE NO and EIGENVALUE), "row" (digits,
\* blanks, a number), "blank", "end" (THE ANALYSIS ...) or "other".
RECURSIVE DatScan(_, _, _)
DatScan(lines, k, inSection) ==
    IF k > Len(lines) THEN <<>>
    ELSE LET ln == lines[k] IN
         IF ln.kind = "header" THEN DatScan(lines, k + 1, TRUE)
         ELSE IF ~inSection THEN DatScan(lines, k + 1, FALSE)
         ELSE IF ln.kind = "blank" THEN DatScan(lines, k + 1, TRUE)
         ELSE IF ln.kind = "row"
              THEN (IF ln.val # 0 THEN << <<ln.mode, ln.val>> >> ELSE <<>>)
                   \o DatScan(lines, k + 1, TRUE)
         ELSE IF ln.kind = "end" THEN <<>>
         ELSE DatScan(lines, k + 1, TRUE)

DatEigenvalues(odb) ==
    IF odb.dat = None THEN <<>> ELSE DatScan(odb.dat[1], 1, FALSE)

Eigenvalues_alwaysLog(odb) == OdbEigenvalues(odb) \o DatEigenvalues(odb)

\* The list written at the end: line 924 consults the log only when the
\* list is empty.
Eigenvalues(odb) ==
    LET e == OdbEigenvalues(odb)
    IN  IF Len(e) = 0 THEN DatEigenvalues(odb) ELSE e

ExtractionMethod(odb) ==
    LET e == OdbEigenvalues(odb)
    IN  IF Len(e) > 0
        THEN (IF Len(Tier1(odb.frames)) > 0 THEN "frameValue"
              ELSE "description_regex")
        ELSE IF Len(DatEigenvalues(odb)) > 0 THEN "dat_file" ELSE "unknown"

\* Effect of one call on the results folder: line 848-851 and 975-991.
extract_buckling_results(odb, dir) ==
    IF ~odb.exists THEN dir
    ELSE LET e == Eigenvalues(odb)
         IN  IF Len(e) > 0
             THEN [dir EXCEPT !.csv = Some(e)]
             ELSE [dir EXCEPT !.warning = TRUE]

\* ========================================================================
\* find_peak_lpf_frame_index  (export_images.py 295-433)
\* Sequences are 1-based here; the indices returned are the code's 0-based
\* ones.
\* ========================================================================

\* LPF_DROP_RATIO = 0.8, LPF_MIN_PEAK_FRAC = 0.6, as tenths.
LPF_DROP_RATIO_TENTHS == 8
LPF_MIN_PEAK_FRAC_TENTHS == 6
LPF_DROP_PERSIST_N == 3
LPF_SMOOTH_WINDOW == 3
\* Smoothed values are held as multiples of 1/SmoothScale: the clipped
\* windows hold LPF_SMOOTH_WINDOW or LPF_SMOOTH_WINDOW - 1 points.
SmoothScale == LPF_SMOOTH_WINDOW * (LPF_SMOOTH_WINDOW - 1)

RECURSIVE SeqMax(_, _)
SeqMax(s, k) ==
    IF k = Len(s) THEN s[k]
    ELSE LET m == SeqMax(s, k + 1) IN IF s[k] >= m THEN s[k] ELSE m

RECURSIVE SeqMin(_, _)
SeqMin(s, k) ==
    IF k = Len(s) THEN s[k]
    ELSE LET m == SeqMin(s, k + 1) IN IF s[k] <= m THEN s[k] ELSE m

RECURSIVE SeqSum(_, _, _)
SeqSum(s, a, b) == IF a > b THEN 0 ELSE s[a] + SeqSum(s, a + 1, b)

Max2(a, b) == IF a >= b THEN a ELSE b
Min2(a, b) == IF a <= b THEN a ELSE b

\* Line 336-339: the side with the larger magnitude counts as positive.
SignRef_swapped(y) == IF SeqMax(y, 1) >= Abs(SeqMin(y, 1)) THEN -1 ELSE 1

SignRef(y) == IF SeqMax(y, 1) >= Abs(SeqMin(y, 1)) THEN 1 ELSE -1

YEff(y) == [k \in 1..Len(y) |-> SignRef(y) * y[k]]

\* Line 342-351: centred moving average, window clipped at both ends.
\* Python slice [a:b] with a = max(0, i-half), b = min(n, i+half+1) is the
\* 1-based range lo..hi below.
YUse(y) ==
    LET e == YEff(y)
        n == Len(y)
        half == LPF_SMOOTH_WINDOW \div 2
    IN  IF LPF_SMOOTH_WINDOW > 1 /\ n >= LPF_SMOOTH_WINDOW
        THEN [k \in 1..n |->
                LET lo == Max2(1, k - half)
                    hi == Min2(n, k + half)
                IN  (SmoothScale * SeqSum(e, lo, hi)) \div (hi - lo + 1)]
        ELSE [k \in 1..n |-> SmoothScale * e[k]]

GlobalPeak(u) == SeqMax(u, 1)

\* max(range(len(y_use)), key=...): the first index of the maximum.
ArgMax(u) ==
    CHOOSE k \in 1..Len(u) :
        /\ u[k] = SeqMax(u, 1)
        /\ \A j \in 1..(k - 1) : u[j] < u[k]

\* Line 358-366: y_use[i] >= min_peak_frac * global_peak, in tenths.
ReachesMinPeak_any(u, k) == TRUE

ReachesMinPeak(u, k) ==
    10 * u[k] >= LPF_MIN_PEAK_FRAC_TENTHS * GlobalPeak(u)

IsLocalPeak_strict(u, k) ==
    /\ k \in 2..(Len(u) - 1)
    /\ u[k] > u[k - 1]
    /\ u[k] > u[k + 1]
    /\ ReachesMinPeak(u, k)

IsLocalPeak(u, k) ==
    /\ k \in 2..(Len(u) - 1)
    /\ u[k] >= u[k - 1]
    /\ u[k] >= u[k + 1]
    /\ ReachesMinPeak(u, k)

\* Line 387-400: scan forward, counting consecutive points at or below
\* drop_ratio * peak.
RECURSIVE DropScan(_, _, _, _)
DropScan(u, peak, j, consecutive) ==
    IF j > Len(u) THEN FALSE
    ELSE IF 10 * u[j] <= LPF_DROP_RATIO_TENTHS * u[peak]
         THEN (IF consecutive + 1 >= LPF_DROP_PERSIST_N THEN TRUE
               ELSE DropScan(u, peak, j + 1, consecutive + 1))
         ELSE DropScan(u, peak, j + 1, 0)

has_sustained_drop_after_peak_once(u, peak) ==
    \E j \in (peak + 1)..Len(u) : 10 * u[j] <= LPF_DROP_RATIO_TENTHS * u[peak]

has_sustained_drop_after_peak(u, peak) == DropScan(u, peak, peak + 1, 0)

\* Line 403-415: the earliest local peak followed by a sustained drop.
DropPeaks(u) ==
    {k \in 1..Len(u) : IsLocalPeak(u, k) /\ has_sustained_drop_after_peak(u, k)}

SetMin(S) == CHOOSE x \in S : \A z \in S : x <= z

\* Line 420-431: the frame whose frameValue is nearest to the peak time;
\* the first one wins a tie.  1-based position in frames.
NearestFrame(frames, time) ==
    CHOOSE k \in 1..Len(frames) :
        /\ \A j \in 1..Len(frames) :
              Abs(frames[k] - time) <= Abs(frames[j] - time)
        /\ \A j \in 1..(k - 1) :
              Abs(frames[j] - time) > Abs(frames[k] - time)

NoPeak(frame) ==
    [frame |-> frame, lpf |-> None, time |-> None, type |-> None,
     chosen |-> None]

\* The returned tuple (frame_index, peak_lpf_original, peak_time,
\* peak_type); chosen is the local chosen_i (0-based).
find_peak_lpf_frame_index(y, t, frames) ==
    LET last_frame == Len(frames) - 1 IN
    IF last_frame < 0 THEN NoPeak(-1)
    ELSE IF Len(y) = 0 THEN NoPeak(last_frame)
    ELSE LET u == YUse(y) IN
         IF GlobalPeak(u) <= 0 THEN NoPeak(last_frame)
         ELSE LET dp == DropPeaks(u)
                  c  == IF dp # {} THEN SetMin(dp) ELSE ArgMax(u)
              IN  [frame  |-> NearestFrame(frames, t[c]) - 1,
                   lpf    |-> Some(y[c]),
                   time   |-> Some(t[c]),
                   type   |-> Some(IF dp # {} THEN "peak_before_drop"
                                   ELSE "global_max"),
                   chosen |-> Some(c - 1)]

\* export_riks_images, line 615-656 with RIKS_FRAME_POLICY = 'peakLPF' and
\* EXPORT_RIKS_LAST_TOO = False: the frames set on the viewport and
\* rendered.  A frame index below 0 is skipped.
RenderedFrames(res) == IF res.frame < 0 THEN {} ELSE {res.frame}

\* ========================================================================
\* cleanup_case_work_dir  (cleanup.py 14-68)
\* A case folder pair is [work, dir, riksCsv, png]: the scratch folder
\* exists, the eigenvalue files of the results folder, riks_curve.csv
\* exists, the number of .png files.
\* ========================================================================

\* Line 33-54: the verification that guards the removal.
CleanupVerified_pngOnly(c, min_png_count) == c.png >= min_png_count

CleanupVerified(c, min_png_count) ==
    /\ c.dir.csv # None
    /\ c.riksCsv
    /\ c.png >= min_png_count

\* What the call prints: the two WARNING lines of line 45-54.
CleanupWarning(c, min_png_count, keep_work_files) ==
    IF keep_work_files THEN None
    ELSE IF ~(c.dir.csv # None /\ c.riksCsv) THEN Some("csv_missing")
    ELSE IF c.png < min_png_count THEN Some("png_count")
    ELSE None

\* The folders after the call: shutil.rmtree of the scratch folder.
cleanup_case_work_dir(c, min_png_count, keep_work_files) ==
    IF keep_work_files THEN c
    ELSE IF ~CleanupVerified(c, min_png_count) THEN c
    ELSE [c EXCEPT !.work = FALSE]

\* The value returned.
CleanupReturns(c, min_png_count, keep_work_files) ==
    /\ ~keep_work_files
    /\ CleanupVerified(c, min_png_count)
    /\ c.work

\* ========================================================================
\* Inputs
\* ========================================================================

\* A frame of the buckling step: frameValue and the eigenvalue quoted in
\* its description, each possibly missing.  Frame i may carry its own
\* index, a small value or a large one; the description of frame 1 may
\* also quote the small value.
FrameChoices(i) ==
    [fv : {None, Some(0), Some(i), Some(50), Some(500 + 100 * i)},
     desc : {None, Some(i), Some(500 + 100 * i)}
            \cup (IF i = 1 THEN {Some(50)} ELSE {})]

InitialFrame == [fv |-> Some(0), desc |-> None]

RECURSIVE FrameSeqs(_)
FrameSeqs(n) ==
    IF n = 0 THEN {<<InitialFrame>>}
    ELSE {Append(s, f) : s \in FrameSeqs(n - 1), f \in FrameChoices(n)}

DatLine(kind, mode, val) == [kind |-> kind, mode |-> mode, val |-> val]

\* Solver logs: none, one without an eigenvalue table, one with the table.
DatChoices ==
    {None,
     Some(<<DatLine("other", 0, 0), DatLine("end", 0, 0)>>),
     Some(<<DatLine("other", 0, 0), DatLine("header", 0, 0),
            DatLine("blank", 0, 0), DatLine("row", 1, 700),
            DatLine("row", 2, 800), DatLine("blank", 0, 0),
            DatLine("end", 0, 0), DatLine("other", 0, 0)>>)}

Odb(exists, opens, frames, dat) ==
    [exists |-> exists, opens |-> opens, frames |-> frames, dat |-> dat]

OdbChoices ==
    {Odb(FALSE, FALSE, <<InitialFrame>>, d) : d \in DatChoices}
    \cup {Odb(TRUE, FALSE, <<InitialFrame>>, d) : d \in DatChoices}
    \cup UNION {{Odb(TRUE, TRUE, f, d) : f \in FrameSeqs(n), d \in DatChoices}
                : n \in 0..MaxModes}

EmptyDir == [csv |-> None, warning |-> FALSE]

\* LPF series: every short series over a few values, the plateau series
\* and the early-spike series.
LpfValues == {-2, 0, 1, 2, 3}

GenericSeries == UNION {[1..n -> LpfValues] : n \in 0..MaxSeriesLen}

\* Strictly increasing rises below the plateau: the sorted subsets of
\* RiseValues with at most MaxRise elements.
RiseValues == {0, 20, 50, 70, 90, 99}

IsRise(s) == \A k \in 1..(Len(s) - 1) : s[k] < s[k + 1]

Rises == UNION {{s \in [1..n -> RiseValues] : IsRise(s)} : n \in 0..MaxRise}

\* A rise, the plateau of 100 held for 5 points, then tail points at 10.
PlateauOf(rise, tail) ==
    rise \o [k \in 1..5 |-> 100] \o [k \in 1..tail |-> 10]

PlateauSeries == {PlateauOf(r, d) : r \in Rises, d \in 2..MaxTail}

\* A spike of 50 at index 2 and the peak of 100 at index 20, the last
\* index; the other points are flat at base, or ramp up by 4 per point
\* (base < 0).
SpikeOf(base) ==
    [k \in 1..21 |->
        IF k - 1 = 2 THEN 50
        ELSE IF k - 1 = 20 THEN 100
        ELSE IF base < 0 THEN 4 * (k - 1) ELSE base]

SpikeSeries == {SpikeOf(b) : b \in {-1, 0, 10, 20, 40}}

\* History times and frame values: one frame per increment; the history
\* starts at the initial frame (start = 0) or at the first increment.
PkInput(y, start) ==
    [y |-> y,
     t |-> [k \in 1..Len(y) |-> start + k - 1],
     frames |-> [k \in 1..(Len(y) + start) |-> k - 1]]

PkInputs ==
    {PkInput(y, s) : y \in GenericSeries \cup PlateauSeries \cup SpikeSeries,
                     s \in {0, 1}}

CaseFolders ==
    [work : BOOLEAN,
     dir : [csv : {None, Some(<< <<1, 700>> >>)}, warning : BOOLEAN],
     riksCsv : BOOLEAN,
     png : 0..MaxPng]

\* ========================================================================
\* Parameter records  (run_analysis.py 128-242)
\* ========================================================================
\* A text is the sequence of its atoms: a digit, one of the characters
\* "-" "+" "." " " "," "_", or a word (a run of letters and digits that
\* starts with a letter).  Floats are kept as integers in units of 1/Scale.
Scale == 10 ^ 4

NoneV == [t |-> "none", v |-> 0, s |-> <<>>]
IntV(n) == [t |-> "int", v |-> n * Scale, s |-> <<>>]
FloatV(x) == [t |-> "float", v |-> x, s |-> <<>>]
StrV(atoms) == [t |-> "str", v |-> 0, s |-> atoms]

IsNumber(x) == x.t \in {"int", "float"}

DigitAtoms == <<"0", "1", "2", "3", "4", "5", "6", "7", "8", "9">>

IsDigit(a) == \E d \in 1..10 : DigitAtoms[d] = a

DigitValue(a) == (CHOOSE d \in 1..10 : DigitAtoms[d] = a) - 1

AllDigits(s) == \A k \in 1..Len(s) : IsDigit(s[k])

RECURSIVE DigitsValue(_)
DigitsValue(s) ==
    IF s = <<>> THEN 0
    ELSE 10 * DigitsValue(SubSeq(s, 1, Len(s) - 1)) + DigitValue(s[Len(s)])

RECURSIVE lstrip(_)
lstrip(s) == IF s # <<>> /\ Head(s) = " " THEN lstrip(Tail(s)) ELSE s

RECURSIVE rstrip(_)
rstrip(s) ==
    IF s # <<>> /\ s[Len(s)] = " " THEN rstrip(SubSeq(s, 1, Len(s) - 1))
    ELSE s

strip(s) == rstrip(lstrip(s))

Unsigned(s) == IF s # <<>> /\ Head(s) = "-" THEN Tail(s) ELSE s

SignOf(s) == IF s # <<>> /\ Head(s) = "-" THEN -1 ELSE 1

\* Line 189: ^-?\d+$
MatchesInt(s) == Unsigned(s) # <<>> /\ AllDigits(Unsigned(s))

DotAt(s) == CHOOSE k \in 1..Len(s) : s[k] = "."

\* Line 187: ^-?\d+\.\d*$
MatchesFloat(s) ==
    LET u == Unsigned(s)
    IN  /\ \E k \in 1..Len(u) : u[k] = "."
        /\ DotAt(u) > 1
        /\ AllDigits(SubSeq(u, 1, DotAt(u) - 1))
        /\ AllDigits(SubSeq(u, DotAt(u) + 1, Len(u)))

\* float(s) for a text of the form above, with at most four decimals.
FloatOfText(s) ==
    LET u == Unsigned(s)
        whole == SubSeq(u, 1, DotAt(u) - 1)
        frac == SubSeq(u, DotAt(u) + 1, Len(u))
    IN  SignOf(s) * (DigitsValue(whole) * Scale
                     + DigitsValue(frac) * 10 ^ (4 - Len(frac)))

\* Line 180-193.
_to_number(x) ==
    IF IsNumber(x) THEN x
    ELSE IF x.t = "none" THEN x          \* str(None) = 'None', no match
    ELSE LET s == strip(x.s)
         IN  IF s = <<>> THEN x
             ELSE IF MatchesFloat(s) THEN FloatV(FloatOfText(s))
             ELSE IF MatchesInt(s)
                  THEN IntV(SignOf(s) * DigitsValue(Unsigned(s)))
             ELSE x

\* int(x) of lines 226-229: a float is truncated toward zero, a text is
\* parsed (blanks around it and one sign allowed), anything else raises.
Outcome(ok, val, err) == [ok |-> ok, val |-> val, err |-> err]

IntOfText(s) ==
    LET u == IF s # <<>> /\ Head(s) \in {"-", "+"} THEN Tail(s) ELSE s
    IN  IF u # <<>> /\ AllDigits(u)
        THEN Outcome(TRUE, IntV(SignOf(s) * DigitsValue(u)), "")
        ELSE Outcome(FALSE, NoneV, "ValueError")

int(x) ==
    IF x.t = "int" THEN Outcome(TRUE, x, "")
    ELSE IF x.t = "float"
         THEN Outcome(TRUE,
                      IntV((IF x.v < 0 THEN -1 ELSE 1) * (Abs(x.v) \div Scale)),
                      "")
    ELSE IF x.t = "str" THEN IntOfText(strip(x.s))
    ELSE Outcome(FALSE, NoneV, "TypeError")

\* Line 128-170.
DEFAULT_PARAMS ==
    [hSeg |-> FloatV(300 * Scale),
     nSeg |-> IntV(2),
     bFlange |-> FloatV(20 * Scale),
     tWeb |-> FloatV(15 * Scale),
     tFlangeSingle |-> FloatV(5 * Scale),
     Lmember |-> FloatV(3000 * Scale),
     autoPlate |-> IntV(1),
     bfPlateTol |-> FloatV(0),
     meshSize |-> FloatV(20 * Scale),
     numEigen |-> IntV(10),
     fy |-> FloatV(3556100),
     eps_y_plateau |-> FloatV(230),
     fu |-> FloatV(444 * Scale),
     eps_u |-> FloatV(1576),
     fy_web |-> NoneV,
     fu_web |-> NoneV,
     eps_u_web |-> NoneV,
     E_web |-> NoneV,
     eps_y_plateau_web |-> FloatV(230),
     fy_flg |-> NoneV,
     fu_flg |-> NoneV,
     eps_u_flg |-> NoneV,
     E_flg |-> NoneV,
     eps_y_plateau_flg |-> FloatV(200),
     imperfMode |-> IntV(1),
     imperfAmp |-> FloatV(6 * Scale),
     endFixityTop |-> StrV(<<"ROTATION", "_", "FIXED">>),
     endFixityBot |-> StrV(<<"FIXED">>),
     numCpus |-> IntV(4),
     enableCases |-> StrV(<<"LC4">>)]

\* Line 172-178.
LEGACY_MAP ==
    [A |-> "hSeg", E |-> "nSeg", B |-> "bFlange", C |-> "tWeb",
     D |-> "tFlangeSingle", L |-> "Lmember",
     meshsz |-> "meshSize", cf1f |-> "FrefX", cf2f |-> "FrefY",
     cf3f |-> "FrefZ",
     u1u |-> "UctrlX", u2u |-> "UctrlY", u3u |-> "UctrlZ",
     trueu3 |-> "maxCtrlDisp",
     nodedeform |-> "imperfAmp", numCpus |-> "numCpus",
     yfss |-> "fy", yfsn |-> "eps_y_plateau", yuss |-> "fu",
     yusn |-> "eps_u"]

\* p[k] = v, the key being added when p does not have it.
SetItem(p, k, v) == [j \in (DOMAIN p) \cup {k} |-> IF j = k THEN v ELSE p[j]]

\* Line 197-201: a row is the list of its (key, value) items.
RECURSIVE MergeRow(_, _)
MergeRow(p, row) ==
    IF row = <<>> THEN p
    ELSE LET k == Head(row)[1]
             v == Head(row)[2]
         IN  MergeRow(IF k \in DOMAIN p THEN SetItem(p, k, _to_number(v))
                      ELSE IF k \in DOMAIN LEGACY_MAP
                           THEN SetItem(p, LEGACY_MAP[k], _to_number(v))
                      ELSE p,
                      Tail(row))

\* Line 204-209 and 212-223: p.get(k) is None.
BackFill(p, k, v) == IF p[k] = NoneV THEN SetItem(p, k, v) ELSE p

BackFillFrom(p, k, from) ==
    IF p[k] = NoneV /\ p[from] # NoneV THEN SetItem(p, k, p[from]) ELSE p

MaterialDefaults(p) ==
    LET p1 == BackFillFrom(p, "fy_web", "fy")
        p2 == BackFillFrom(p1, "fu_web", "fu")
        p3 == BackFillFrom(p2, "eps_u_web", "eps_u")
        p4 == BackFill(p3, "fy_flg", FloatV(3252000))
        p5 == BackFill(p4, "fu_flg", FloatV(4743000))
        p6 == BackFill(p5, "eps_u_flg", FloatV(2000))
        p7 == BackFill(p6, "E_web", FloatV(210184 * Scale))
    IN  BackFill(p7, "E_flg", FloatV(211551 * Scale))

\* Line 226-229: the first field int() rejects raises out of the function.
IntFields == <<"nSeg", "numEigen", "imperfMode", "autoPlate">>

RECURSIVE ForceTypes(_, _)
ForceTypes(p, fields) ==
    IF fields = <<>> THEN Outcome(TRUE, p, "")
    ELSE LET r == int(p[Head(fields)])
         IN  IF r.ok
             THEN ForceTypes(SetItem(p, Head(fields), r.val), Tail(fields))
             ELSE Outcome(FALSE, NoneV, r.err)

\* Line 195-230.
normalize_params(row_dict) ==
    ForceTypes(MaterialDefaults(MergeRow(DEFAULT_PARAMS, row_dict)), IntFields)

\* dict.items() of a record already built, in the order of the given keys.
RECURSIVE ItemsOf(_, _)
ItemsOf(p, keys) ==
    IF keys = {} THEN <<>>
    ELSE LET k == CHOOSE j \in keys : TRUE
         IN  <<<<k, p[k]>>>> \o ItemsOf(p, keys \ {k})

items(p) == ItemsOf(p, DOMAIN p)

\* ========================================================================
\* Load cases  (run_analysis.py 255-339)
\* ========================================================================
\* Line 255-301: the keys of the registry with the reference load of each.
LOAD_CASES ==
    [LC1_Axial |-> <<0, 0, -10>>,
     LC2_Axial_ShearY |-> <<0, 10, -5>>,
     LC3_Axial_ShearX |-> <<10, 0, -5>>,
     LC4_ShearY |-> <<0, 10, 0>>,
     LC5_ShearX |-> <<10, 0, 0>>,
     LC6_Axial_ShearXY |-> <<10, 10, -5>>,
     LC7_AxialOnly_High |-> <<0, 0, -20>>]

\* Truth value of a Python object.
Truthy(x) ==
    IF IsNumber(x) THEN x.v # 0
    ELSE IF x.t = "str" THEN x.s # <<>>
    ELSE FALSE

RECURSIVE DecimalAtoms(_)
DecimalAtoms(n) ==
    IF n < 10 THEN <<DigitAtoms[n + 1]>>
    ELSE DecimalAtoms(n \div 10) \o <<DigitAtoms[(n % 10) + 1]>>

RECURSIVE FractionAtoms(_, _)
FractionAtoms(f, width) ==
    IF width = 0 \/ f = 0 THEN <<>>
    ELSE <<DigitAtoms[(f \div (10 ^ (width - 1))) + 1]>>
         \o FractionAtoms(f % (10 ^ (width - 1)), width - 1)

\* str(x), line 307.
str(x) ==
    IF x.t = "str" THEN x.s
    ELSE IF x.t = "none" THEN <<"None">>
    ELSE LET sign == IF x.v < 0 THEN <<"-">> ELSE <<>>
             a == Abs(x.v)
         IN  IF x.t = "int" THEN sign \o DecimalAtoms(a \div Scale)
             ELSE sign \o DecimalAtoms(a \div Scale) \o <<".">>
                  \o (IF a % Scale = 0 THEN <<"0">>
                      ELSE FractionAtoms(a % Scale, 4))

\* s.split(',')
RECURSIVE split(_)
split(s) ==
    IF \A k \in 1..Len(s) : s[k] # "," THEN <<s>>
    ELSE LET c == CHOOSE k \in 1..Len(s) :
                     s[k] = "," /\ \A j \in 1..(k - 1) : s[j] # ","
         IN  <<SubSeq(s, 1, c - 1)>> \o split(SubSeq(s, c + 1, Len(s)))

\* The text the atoms spell.
RECURSIVE Join(_)
Join(s) == IF s = <<>> THEN "" ELSE Head(s) \o Join(Tail(s))

\* key.replace('_', '')
RemoveUnderscores(s) == SelectSeq(s, LAMBDA a : a # "_")

\* Line 310-314.
RECURSIVE LookUp(_)
LookUp(case_keys) ==
    IF case_keys = <<>> THEN <<>>
    ELSE LET key == strip(Head(case_keys))
         IN  (IF Join(key) \in DOMAIN LOAD_CASES THEN <<Join(key)>>
              ELSE IF Join(RemoveUnderscores(key)) \in DOMAIN LOAD_CASES
                   THEN <<Join(RemoveUnderscores(key))>>
              ELSE <<>>)
             \o LookUp(Tail(case_keys))

\* Line 306-316: the cases the selector names, none when it is not used.
SelectedCases(params) ==
    IF "enableCases" \in DOMAIN params /\ Truthy(params["enableCases"])
    THEN LookUp(split(str(params["enableCases"])))
    ELSE <<>>

\* params.get(k, 0.0)
Get(params, k) == IF k \in DOMAIN params THEN params[k] ELSE FloatV(0)

\* Line 320-322: a or b or 0.0
LoadFactor(params, legacy, canonical) ==
    IF Truthy(Get(params, legacy)) THEN Get(params, legacy)
    ELSE IF Truthy(Get(params, canonical)) THEN Get(params, canonical)
    ELSE FloatV(0)

\* abs(cf) > 0.1 and abs(cf) < 0.1: "T", "F", or "E" when abs() raises.
LOAD_THRESHOLD == Scale \div 10

Above(cf) ==
    IF ~IsNumber(cf) THEN "E"
    ELSE IF Abs(cf.v) > LOAD_THRESHOLD THEN "T" ELSE "F"

Below(cf) ==
    IF ~IsNumber(cf) THEN "E"
    ELSE IF Abs(cf.v) < LOAD_THRESHOLD THEN "T" ELSE "F"

\* a and b, evaluated left to right.
And2(a, b) == IF a # "T" THEN a ELSE b

\* Line 325-339: the tests in the order of the if-chain, each with the
\* case it selects.
InferenceChain(cf1, cf2, cf3) ==
    << <<And2(Above(cf3), And2(Below(cf2), Below(cf1))), "LC1_Axial">>,
       <<And2(Above(cf2), And2(Below(cf3), Below(cf1))), "LC4_ShearY">>,
       <<And2(Above(cf3), Above(cf2)), "LC2_Axial_ShearY">>,
       <<And2(Above(cf3), Above(cf1)), "LC3_Axial_ShearX">> >>

RECURSIVE FirstTrue(_)
FirstTrue(chain) ==
    IF chain = <<>> THEN Outcome(TRUE, <<"LC1_Axial">>, "")
    ELSE IF Head(chain)[1] = "E" THEN Outcome(FALSE, <<>>, "TypeError")
    ELSE IF Head(chain)[1] = "T" THEN Outcome(TRUE, <<Head(chain)[2]>>, "")
    ELSE FirstTrue(Tail(chain))

InferredCase(params) ==
    FirstTrue(InferenceChain(LoadFactor(params, "cf1f", "FrefX"),
                             LoadFactor(params, "cf2f", "FrefY"),
                             LoadFactor(params, "cf3f", "FrefZ")))

\* Line 303-339: the names of the cases returned, or the error raised.
get_enabled_cases(params) ==
    IF SelectedCases(params) # <<>>
    THEN Outcome(TRUE, SelectedCases(params), "")
    ELSE InferredCase(params)

\* ========================================================================
\* The three functions called on their own
\* ========================================================================
EigIdle == eigOdb = Odb(FALSE, FALSE, <<InitialFrame>>, None)
           /\ eigDir = EmptyDir /\ eigPc = "idle"

PkIdle == pkIn = PkInput(<<>>, 0) /\ pkOut = None /\ pkPc = "idle"

ClIdle == clCase = [work |-> FALSE, dir |-> EmptyDir, riksCsv |-> FALSE,
                    png |-> 0]
          /\ clArgs = [min_png_count |-> 1, keep_work_files |-> FALSE]
          /\ clOut = None /\ clPc = "idle"

OrchIdle == cases = <<>> /\ KEEP_WORK_FILES = TRUE /\ ci = 0 /\ pc = "idle"
            /\ all_results = <<>> /\ summary = None
            /\ fs = <<>> /\ odbOut = None /\ log = <<>>
            /\ cwd = WORK_DIR /\ original_cwd = None
            /\ steps = <<>> /\ jobs = {}

ParIdle == nmRow = <<>> /\ nmOut = None /\ nmTwin = None /\ nmCases = None
           /\ nmAgain = None /\ nmPc = "idle"

BatIdle == btFile = None /\ params_list = <<>> /\ btI = 0 /\ btRuns = <<>>
           /\ btPc = "idle"

VwIdle == vwArgs = [max_wait_sec |-> 0, check_interval |-> 1]
          /\ vwEnv = [script |-> FALSE, odb |-> FALSE]
          /\ attempt = 0 /\ vwSeen = <<>> /\ vwRet = None /\ vwPc = "idle"

KbIdle == kbBlocks = <<>> /\ kbArgs = None /\ kbOut = None /\ kbPc = "idle"

CrvIdle == crvIn = <<>> /\ crvOut = None /\ crvPc = "idle"

LateIdle == KbIdle /\ CrvIdle

FrontIdle == ParIdle /\ BatIdle /\ VwIdle /\ LateIdle

InitEigen ==
    /\ eigOdb \in OdbChoices
    /\ eigDir = EmptyDir
    /\ eigPc = "call"
    /\ PkIdle /\ ClIdle /\ OrchIdle /\ FrontIdle

ExtractBuckling ==
    /\ eigPc = "call"
    /\ eigDir' = extract_buckling_results(eigOdb, eigDir)
    /\ eigPc' = "done"
    /\ UNCHANGED <<eigOdb, pkVars, clVars, orchVars, frontVars>>

NextEigen == ExtractBuckling

SpecEigen == InitEigen /\ [][NextEigen]_vars

InitPeak ==
    /\ pkIn \in PkInputs
    /\ pkOut = None
    /\ pkPc = "call"
    /\ EigIdle /\ ClIdle /\ OrchIdle /\ FrontIdle

\* export_riks_images 608-656: an archive without frames is left at once
\* (find_peak_lpf_frame_index answers -1 for it, rendering nothing).
ExportRiksImages ==
    /\ pkPc = "call"
    /\ LET res == find_peak_lpf_frame_index(pkIn.y, pkIn.t, pkIn.frames)
       IN  pkOut' = Some([res |-> res, rendered |-> RenderedFrames(res)])
    /\ pkPc' = "done"
    /\ UNCHANGED <<pkIn, eigVars, clVars, orchVars, frontVars>>

NextPeak == ExportRiksImages

SpecPeak == InitPeak /\ [][NextPeak]_vars

InitCleanup ==
    /\ clCase \in CaseFolders
    /\ clArgs \in [min_png_count : 1..MaxPng, keep_work_files : BOOLEAN]
    /\ clOut = None
    /\ clPc = "call"
    /\ EigIdle /\ PkIdle /\ OrchIdle /\ FrontIdle

CleanupCall ==
    /\ clPc = "call"
    /\ clCase' = cleanup_case_work_dir(clCase, clArgs.min_png_count,
                                       clArgs.keep_work_files)
    /\ clOut' = Some([warning |-> CleanupWarning(clCase, clArgs.min_png_count,
                                                 clArgs.keep_work_files),
                      returned |-> CleanupReturns(clCase, clArgs.min_png_count,
                                                  clArgs.keep_work_files)])
    /\ clPc' = "done"
    /\ UNCHANGED <<clArgs, eigVars, pkVars, orchVars, frontVars>>

NextCleanup == CleanupCall

SpecCleanup == InitCleanup /\ [][NextCleanup]_vars

\* ========================================================================
\* normalize_params and get_enabled_cases called on their own
\* ========================================================================
\* A cell of the input file is a text; a row is the list of its items.
OptItem(k, cell) == IF cell = None THEN <<>> ELSE << <<k, StrV(cell[1])>> >>

FieldKeys == {"nSeg", "E", "yfss", "cf2f", "FrefY"}

FieldCells == {<<"2">>, <<"0">>, <<"-", "1">>, <<"2", ".", "5">>, <<"abc">>,
               <<>>}

FieldItems == {<<k, StrV(c)>> : k \in FieldKeys, c \in FieldCells}

\* Rows of free fields, no key twice (a row is a dict).
FieldRows ==
    {r \in UNION {[1..n -> FieldItems] : n \in 0..MaxFields} :
        \A i, j \in 1..Len(r) : i # j => r[i][1] # r[j][1]}

LoadCells == {None} \cup {Some(c) : c \in {<<"0">>, <<"1", ".", "0">>,
                                            <<"-", "0", ".", "5">>, <<"abc">>}}

Tokens == {<<"LC4">>, <<"LC4", "_", "ShearY">>,
           <<" ", "LC1", "_", "Axial", " ">>, <<>>, <<"LC9">>}

RECURSIVE JoinTokens(_)
JoinTokens(toks) ==
    IF Len(toks) = 1 THEN toks[1]
    ELSE toks[1] \o <<",">> \o JoinTokens(Tail(toks))

Selectors ==
    {JoinTokens(toks) : toks \in UNION {[1..n -> Tokens] : n \in 1..MaxTokens}}

SelectorCells == {None} \cup {Some(sel) : sel \in Selectors}

\* Rows of the three legacy load factors and the selector.
SelectorRows ==
    {OptItem("cf1f", a) \o OptItem("cf2f", b) \o OptItem("cf3f", c)
        \o OptItem("enableCases", sel) :
     a \in LoadCells, b \in LoadCells, c \in LoadCells, sel \in SelectorCells}

\* The row written with the canonical name of every legacy key.
CanonicalNames(row) ==
    [k \in 1..Len(row) |->
        <<IF row[k][1] \in DOMAIN LEGACY_MAP THEN LEGACY_MAP[row[k][1]]
          ELSE row[k][1],
          row[k][2]>>]

InitParams ==
    /\ nmRow \in FieldRows \cup SelectorRows
    /\ nmOut = None /\ nmTwin = None /\ nmCases = None /\ nmAgain = None
    /\ nmPc = "row"
    /\ EigIdle /\ PkIdle /\ ClIdle /\ OrchIdle /\ BatIdle /\ VwIdle /\ LateIdle

restVars == <<eigVars, pkVars, clVars, orchVars, batVars, vwVars, lateVars>>

NormalizeParams ==
    /\ nmPc = "row"
    /\ nmOut' = Some(normalize_params(nmRow))
    /\ nmPc' = "twin"
    /\ UNCHANGED <<nmRow, nmTwin, nmCases, nmAgain, restVars>>

NormalizeCanonical ==
    /\ nmPc = "twin"
    /\ nmTwin' = Some(normalize_params(CanonicalNames(nmRow)))
    /\ nmPc' = IF nmOut[1].ok THEN "resolve" ELSE "raised"
    /\ UNCHANGED <<nmRow, nmOut, nmCases, nmAgain, restVars>>

GetEnabledCases ==
    /\ nmPc = "resolve"
    /\ nmCases' = Some(get_enabled_cases(nmOut[1].val))
    /\ nmPc' = "again"
    /\ UNCHANGED <<nmRow, nmOut, nmTwin, nmAgain, restVars>>

NormalizeAgain ==
    /\ nmPc = "again"
    /\ nmAgain' = Some(normalize_params(items(nmOut[1].val)))
    /\ nmPc' = "done"
    /\ UNCHANGED <<nmRow, nmOut, nmTwin, nmCases, restVars>>

NextParams ==
    \/ NormalizeParams \/ NormalizeCanonical \/ GetEnabledCases
    \/ NormalizeAgain

SpecParams == InitParams /\ [][NextParams]_vars

\* ========================================================================
\* main  (run_analysis.py 1553-1614) with read_parameters_from_csv
\* ========================================================================
\* Rows of a batch file: a plain one, one whose segment count is no number,
\* one with a text as load factor and no selector, a short row (the reader
\* fills the missing cell with None), one with a text as yield stress.
BatchRows ==
    {<< <<"E", StrV(<<"2">>)>> >>,
     << <<"nSeg", StrV(<<"abc">>)>> >>,
     << <<"cf3f", StrV(<<"abc">>)>>, <<"enableCases", StrV(<<>>)>> >>,
     << <<"nSeg", NoneV>> >>,
     << <<"yfss", StrV(<<"abc">>)>> >>,
     << <<"C", StrV(<<"1", "5", ".", "5">>)>> >>,
     << <<"A", StrV(<<"abc">>)>> >>}

\* s * n for a str s.
RECURSIVE Repeat(_, _)
Repeat(s, n) == IF n <= 0 THEN <<>> ELSE s \o Repeat(s, n - 1)

\* Line 245: p['hSeg'] * p['nSeg'], nSeg being an int.
Times(a, n) ==
    IF IsNumber(a)
    THEN Outcome(TRUE, [t |-> a.t, v |-> a.v * (n.v \div Scale), s |-> <<>>],
                 "")
    ELSE IF a.t = "str"
    THEN Outcome(TRUE, StrV(Repeat(a.s, n.v \div Scale)), "")
    ELSE Outcome(FALSE, NoneV, "TypeError")

\* Line 244-249: the four integers of 'H%d_b%d_t%d_L%d', or the error
\* raised.
generate_model_name(p) ==
    LET H == Times(p["hSeg"], p["nSeg"])
        parts == <<IF H.ok THEN int(H.val) ELSE H, int(p["bFlange"]),
                   int(p["tWeb"]), int(p["Lmember"])>>
        bad == {k \in 1..4 : ~parts[k].ok}
    IN  IF bad # {} THEN Outcome(FALSE, <<>>, parts[SetMin(bad)].err)
        ELSE Outcome(TRUE, [k \in 1..4 |-> parts[k].val.v \div Scale], "")

BatchFiles ==
    {None} \cup {Some(rows) : rows \in UNION {[1..n -> BatchRows] :
                                                 n \in 0..MaxRows}}

InitBatch ==
    /\ btFile \in BatchFiles
    /\ params_list = <<>>
    /\ btI = 0
    /\ btRuns = <<>>
    /\ btPc = "read"
    /\ EigIdle /\ PkIdle /\ ClIdle /\ OrchIdle /\ ParIdle /\ VwIdle /\ LateIdle

\* Line 232-242: the list of parameter sets, or the error normalize_params
\* raised for a row.
read_parameters_from_csv(file) ==
    IF file = None THEN Outcome(TRUE, <<DEFAULT_PARAMS>>, "")
    ELSE LET rows == file[1]
             bad == {k \in 1..Len(rows) : ~normalize_params(rows[k]).ok}
         IN  IF bad # {}
             THEN Outcome(FALSE, <<>>,
                          normalize_params(rows[SetMin(bad)]).err)
             ELSE IF rows = <<>> THEN Outcome(TRUE, <<DEFAULT_PARAMS>>, "")
             ELSE Outcome(TRUE,
                          [k \in 1..Len(rows) |-> normalize_params(rows[k]).val],
                          "")

\* Line 1597: an error raised while reading leaves main.
ReadParameters ==
    /\ btPc = "read"
    /\ LET r == read_parameters_from_csv(btFile)
       IN  IF r.ok
           THEN params_list' = r.val /\ btI' = 1 /\ btPc' = "loop"
           ELSE btPc' = "crashed" /\ UNCHANGED <<params_list, btI>>
    /\ UNCHANGED <<btFile, btRuns, eigVars, pkVars, clVars, orchVars,
                   parVars, vwVars, lateVars>>

\* Line 1600-1609: run_multicase_analysis(p) names the model (1430) and
\* returns, or raises (the name cannot be built, the cases cannot be
\* resolved, the geometry cannot be built) and the loop goes on.
RunParameterSet ==
    /\ btPc = "loop" /\ btI <= Len(params_list)
    /\ LET model_name == generate_model_name(params_list[btI])
       IN  \E result \in (IF /\ model_name.ok
                               /\ get_enabled_cases(params_list[btI]).ok
                            THEN {"completed", "error"} ELSE {"error"}) :
              btRuns' = Append(btRuns,
                               [p |-> params_list[btI],
                                result |-> result,
                                model_name |-> IF model_name.ok
                                               THEN Some(model_name.val)
                                               ELSE None])
    /\ btI' = btI + 1
    /\ UNCHANGED <<btFile, params_list, btPc, eigVars, pkVars, clVars,
                   orchVars, parVars, vwVars, lateVars>>

\* Line 1611-1614.
FinishBatch ==
    /\ btPc = "loop" /\ btI > Len(params_list)
    /\ btPc' = "done"
    /\ UNCHANGED <<btFile, params_list, btI, btRuns, eigVars, pkVars, clVars,
                   orchVars, parVars, vwVars, lateVars>>

NextBatch == ReadParameters \/ RunParameterSet \/ FinishBatch

SpecBatch == InitBatch /\ [][NextBatch]_vars

\* ========================================================================
\* export_case_images up to the start of the viewer  (1286-1350)
\* ========================================================================
\* Line 1334: the call of export_case_images.
DefaultWait == [max_wait_sec |-> 300, check_interval |-> 5]

WaitArgs ==
    {DefaultWait} \cup [max_wait_sec : 0..MaxWaitSec,
                        check_interval : 1..MaxInterval]

InitViewer ==
    /\ vwArgs \in WaitArgs
    /\ vwEnv \in [script : BOOLEAN, odb : BOOLEAN]
    /\ attempt = 0
    /\ vwSeen = <<>>
    /\ vwRet = None
    /\ vwPc = "poll"
    /\ EigIdle /\ PkIdle /\ ClIdle /\ OrchIdle /\ ParIdle /\ BatIdle /\ LateIdle

\* Line 1290: range(max_wait_sec // check_interval)
PollLimit_oneMore(max_wait_sec, check_interval) ==
    (max_wait_sec \div check_interval) + 1

PollLimit(max_wait_sec, check_interval) == max_wait_sec \div check_interval

\* Line 1291-1318: one poll; a poll that fails counts as "no viewer".
ViewerPoll ==
    /\ vwPc = "poll"
    /\ attempt < PollLimit(vwArgs.max_wait_sec, vwArgs.check_interval)
    /\ \E viewer_running \in BOOLEAN :
          /\ vwSeen' = Append(vwSeen, viewer_running)
          /\ IF viewer_running
             THEN vwPc' = "sleep" /\ UNCHANGED vwRet
             ELSE vwPc' = "waited" /\ vwRet' = Some(TRUE)
    /\ UNCHANGED <<vwArgs, vwEnv, attempt, eigVars, pkVars, clVars, orchVars,
                   parVars, batVars, lateVars>>

\* Line 1318: time.sleep(check_interval), then the next attempt.
ViewerSleep ==
    /\ vwPc = "sleep"
    /\ attempt' = attempt + 1
    /\ vwPc' = "poll"
    /\ UNCHANGED <<vwArgs, vwEnv, vwSeen, vwRet, eigVars, pkVars, clVars,
                   orchVars, parVars, batVars, lateVars>>

\* Line 1320-1321.
ViewerTimeout ==
    /\ vwPc = "poll"
    /\ attempt >= PollLimit(vwArgs.max_wait_sec, vwArgs.check_interval)
    /\ vwRet' = Some(FALSE)
    /\ vwPc' = "waited"
    /\ UNCHANGED <<vwArgs, vwEnv, attempt, vwSeen, eigVars, pkVars, clVars,
                   orchVars, parVars, batVars, lateVars>>

\* Line 1334: what wait_for_viewer_lock returned is not looked at.
ProceedsAfterWait(returned) == TRUE

\* Line 1336-1378: the viewer is started when the export script and an
\* archive are there.
StartExport ==
    /\ vwPc = "waited"
    /\ vwPc' = IF ProceedsAfterWait(vwRet[1]) /\ vwEnv.script /\ vwEnv.odb
               THEN "started" ELSE "skipped"
    /\ UNCHANGED <<vwArgs, vwEnv, attempt, vwSeen, vwRet, eigVars, pkVars,
                   clVars, orchVars, parVars, batVars, lateVars>>

NextViewer == ViewerPoll \/ ViewerSleep \/ ViewerTimeout \/ StartExport

\* The process runs on: every call of its sequential code returns.
SpecViewer == InitViewer /\ [][NextViewer]_vars /\ WF_vars(NextViewer)

\* ========================================================================
\* run_multicase_analysis  (run_analysis.py 1424-1492) and write_summary
\* ========================================================================
CaseNames == {"LC1_Axial", "LC4_ShearY"}

CaseLists == UNION {[1..n -> CaseNames] : n \in 1..MaxCases}

NoFolders ==
    [work |-> FALSE, buckleOdb |-> FALSE, riksOdb |-> FALSE,
     dir |-> EmptyDir, riksCsv |-> FALSE, png |-> 0]

\* What a completed buckling job leaves: no archive, an archive with two
\* modes, an archive without any eigenvalue and without a solver log.
BuckleOutcomes ==
    {Odb(FALSE, FALSE, <<InitialFrame>>, None),
     Odb(TRUE, TRUE,
         <<InitialFrame, [fv |-> Some(600), desc |-> None],
           [fv |-> Some(700), desc |-> None]>>, None),
     Odb(TRUE, TRUE, <<InitialFrame>>, None)}

\* What a completed Riks job leaves: no archive, one openOdb rejects, one
\* without Step-1, a complete one.
RiksOutcomes == {"none", "unreadable", "nostep", "good"}

Init ==
    /\ cases \in CaseLists
    /\ KEEP_WORK_FILES \in BOOLEAN
    /\ ci = 1
    /\ pc = "loop"
    /\ all_results = <<>>
    /\ summary = None
    /\ fs = [c \in CaseNames |-> NoFolders]
    /\ odbOut = None
    /\ log = <<>>
    /\ cwd = WORK_DIR
    /\ original_cwd = None
    /\ steps = <<>>
    /\ jobs = {}
    /\ EigIdle /\ PkIdle /\ ClIdle /\ FrontIdle

case_name == cases[ci]

\* Line 1446: the scratch folder of the case.
case_work_dir == <<"work", case_name>>

\* Line 813-814 and 1117-1118: finally: os.chdir(original_cwd).
LeaveScratch_stay(original, current) == current

LeaveScratch(original, current) == original

Event(ev, i) == [ev |-> ev, i |-> i]

\* Line 1483-1487: the handler prints the error and continues with the
\* next case.
AfterError_break(i) == Len(cases) + 1

AfterError(i) == i + 1

Step(ev) == steps' = Append(steps, Event(ev, ci))

\* Line 1455, 1094: the job names of the case.
JobName(phase) == <<phase, case_name>>

AfterWait_still(running, job) == running

\* Line 812, 1116: waitForCompletion blocks until the job has ended; it
\* raises when the job ended with an error.
AfterWait(running, job) == running \ {job}

Raise ==
    /\ log' = Append(log, Event("error", ci))
    /\ ci' = AfterError(ci)
    /\ pc' = "loop"
    /\ odbOut' = None

\* Line 1443-1449 and run_buckling_analysis 733-746: the folders are made.
StartCase ==
    /\ pc = "loop" /\ ci <= Len(cases)
    /\ fs' = [fs EXCEPT ![case_name].work = TRUE]
    /\ log' = Append(log, Event("start", ci))
    /\ pc' = "buckle_build"
    /\ UNCHANGED <<cwd, original_cwd, steps, jobs>>
    /\ UNCHANGED <<cases, KEEP_WORK_FILES, ci, all_results, summary, odbOut,
                   eigVars, pkVars, clVars, frontVars>>

\* run_buckling_analysis 748-802: model, sections, couplings, mesh (the
\* geometry and selection errors are raised here), then the current folder
\* is recorded and the scratch folder entered.
BuckleBuild ==
    /\ pc = "buckle_build"
    /\ \/ /\ pc' = "buckle_submit"
          /\ original_cwd' = Some(cwd)
          /\ cwd' = case_work_dir
          /\ UNCHANGED <<ci, log, odbOut>>
       \/ Raise /\ UNCHANGED <<cwd, original_cwd>>
    /\ UNCHANGED <<steps, jobs>>
    /\ UNCHANGED <<cases, KEEP_WORK_FILES, all_results, summary, fs,
                   eigVars, pkVars, clVars, frontVars>>

\* Line 805-811: mdb.Job and submit; the finally block runs when they raise.
BuckleSubmit ==
    /\ pc = "buckle_submit"
    /\ \/ /\ pc' = "buckle_wait"
          /\ Step("buckle_submitted")
          /\ jobs' = jobs \cup {JobName("Buckle")}
          /\ UNCHANGED <<ci, log, odbOut, cwd>>
       \/ /\ Raise /\ cwd' = LeaveScratch(original_cwd[1], cwd)
          /\ UNCHANGED <<steps, jobs>>
    /\ UNCHANGED original_cwd
    /\ UNCHANGED <<cases, KEEP_WORK_FILES, all_results, summary, fs,
                   eigVars, pkVars, clVars, frontVars>>

\* Line 812: waitForCompletion returns, the job having left an archive or
\* not, or raises.
BuckleWait ==
    /\ pc = "buckle_wait"
    /\ \/ /\ \E o \in BuckleOutcomes :
                /\ odbOut' = Some(o)
                /\ fs' = [fs EXCEPT ![case_name].buckleOdb = o.exists]
          /\ pc' = "buckle_extract"
          /\ Step("buckle_completed")
          /\ UNCHANGED <<ci, log>>
       \/ Raise /\ UNCHANGED <<fs, steps>>
    /\ jobs' = AfterWait(jobs, JobName("Buckle"))
    /\ cwd' = LeaveScratch(original_cwd[1], cwd)
    /\ UNCHANGED original_cwd
    /\ UNCHANGED <<cases, KEEP_WORK_FILES, all_results, summary,
                   eigVars, pkVars, clVars, frontVars>>

\* Line 817-828: extraction when the archive exists.
BuckleExtract ==
    /\ pc = "buckle_extract"
    /\ fs' = [fs EXCEPT ![case_name].dir =
                 IF odbOut[1].exists
                 THEN extract_buckling_results(odbOut[1], @) ELSE @]
    /\ odbOut' = None
    /\ pc' = "riks_build"
    /\ IF odbOut[1].exists THEN Step("eigen_extraction") ELSE UNCHANGED steps
    /\ UNCHANGED <<cwd, original_cwd, jobs>>
    /\ UNCHANGED <<cases, KEEP_WORK_FILES, ci, all_results, summary, log,
                   eigVars, pkVars, clVars, frontVars>>

\* run_riks_analysis 1023-1104, the scratch folder entered at the end.
RiksBuild ==
    /\ pc = "riks_build"
    /\ \/ /\ pc' = "riks_submit"
          /\ original_cwd' = Some(cwd)
          /\ cwd' = case_work_dir
          /\ UNCHANGED <<ci, log, odbOut>>
       \/ Raise /\ UNCHANGED <<cwd, original_cwd>>
    /\ UNCHANGED <<steps, jobs>>
    /\ UNCHANGED <<cases, KEEP_WORK_FILES, all_results, summary, fs,
                   eigVars, pkVars, clVars, frontVars>>

\* Line 1107-1115: mdb.Job, writeInput, submit.
RiksSubmit ==
    /\ pc = "riks_submit"
    /\ \/ /\ pc' = "riks_wait"
          /\ Step("riks_submitted")
          /\ jobs' = jobs \cup {JobName("Riks")}
          /\ UNCHANGED <<ci, log, odbOut, cwd>>
       \/ /\ Raise /\ cwd' = LeaveScratch(original_cwd[1], cwd)
          /\ UNCHANGED <<steps, jobs>>
    /\ UNCHANGED original_cwd
    /\ UNCHANGED <<cases, KEEP_WORK_FILES, all_results, summary, fs,
                   eigVars, pkVars, clVars, frontVars>>

\* Line 1116.
RiksWait ==
    /\ pc = "riks_wait"
    /\ \/ /\ \E o \in RiksOutcomes :
                /\ odbOut' = Some(o)
                /\ fs' = [fs EXCEPT ![case_name].riksOdb = (o # "none")]
          /\ pc' = "riks_extract"
          /\ Step("riks_completed")
          /\ UNCHANGED <<ci, log>>
       \/ Raise /\ UNCHANGED <<fs, steps>>
    /\ jobs' = AfterWait(jobs, JobName("Riks"))
    /\ cwd' = LeaveScratch(original_cwd[1], cwd)
    /\ UNCHANGED original_cwd
    /\ UNCHANGED <<cases, KEEP_WORK_FILES, all_results, summary,
                   eigVars, pkVars, clVars, frontVars>>

ZeroRow(name) == [case |-> name, max_U |-> 0, max_RF |-> 0, max_LPF |-> 0]
CurveRow(name) == [case |-> name, max_U |-> 30, max_RF |-> 900, max_LPF |-> 2]

\* Line 1121-1142 with extract_riks_results 1144-1257, then line 1463-1472:
\* the row is appended and the export announced.  An archive without
\* Step-1 makes odb.steps['Step-1'] raise out of the extraction.
RiksExtract ==
    /\ pc = "riks_extract"
    /\ \/ /\ odbOut[1] \in {"none", "unreadable"}
          /\ all_results' = Append(all_results, ZeroRow(case_name))
          /\ log' = Append(log, Event("export", ci))
          /\ pc' = "export"
          /\ odbOut' = None
          /\ UNCHANGED <<ci, fs>>
       \/ /\ odbOut[1] = "good"
          /\ all_results' = Append(all_results, CurveRow(case_name))
          /\ fs' = [fs EXCEPT ![case_name].riksCsv = TRUE]
          /\ log' = Append(log, Event("export", ci))
          /\ pc' = "export"
          /\ odbOut' = None
          /\ UNCHANGED ci
       \/ /\ odbOut[1] = "nostep"
          /\ Raise
          /\ UNCHANGED <<all_results, fs>>
    /\ IF odbOut[1] # "none" THEN Step("curve_extraction")
       ELSE UNCHANGED steps
    /\ UNCHANGED <<cwd, original_cwd, jobs>>
    /\ UNCHANGED <<cases, KEEP_WORK_FILES, summary, eigVars, pkVars, clVars,
                   frontVars>>

\* export_case_images 1324-1418: the viewer leaves images or not; the
\* call returns False on any trouble of the viewer, os.chdir may raise.
ExportImages ==
    /\ pc = "export"
    /\ \/ /\ \E n \in 0..1 :
                fs' = [fs EXCEPT ![case_name].png = Max2(@, n)]
          /\ cwd' \in {cwd, WORK_DIR}
          /\ pc' = "cleanup"
          /\ UNCHANGED <<ci, log, odbOut>>
       \/ Raise /\ UNCHANGED <<fs, cwd>>
    /\ Step("visualization")
    /\ UNCHANGED <<original_cwd, jobs>>
    /\ UNCHANGED <<cases, KEEP_WORK_FILES, all_results, summary,
                   eigVars, pkVars, clVars, frontVars>>

\* A removed scratch folder takes the archives with it.
AfterRemoval(c) ==
    IF c.work THEN c ELSE [c EXCEPT !.buckleOdb = FALSE, !.riksOdb = FALSE]

\* Line 1475-1481: cleanup unless KEEP_WORK_FILES; a failing import or call
\* is a warning.  Then the loop goes on.
CleanupStep ==
    /\ pc = "cleanup"
    /\ \/ /\ KEEP_WORK_FILES
          /\ UNCHANGED <<fs, log, steps>>
       \/ /\ ~KEEP_WORK_FILES
          /\ fs' = [fs EXCEPT ![case_name] =
                       AfterRemoval(cleanup_case_work_dir(@, 1, KEEP_WORK_FILES))]
          /\ log' = IF CleanupWarning(fs[case_name], 1, KEEP_WORK_FILES) # None
                    THEN Append(log, Event("cleanup_warning", ci)) ELSE log
          /\ Step("cleanup")
       \/ /\ ~KEEP_WORK_FILES
          /\ log' = Append(log, Event("cleanup_failed", ci))
          /\ UNCHANGED <<fs, steps>>
    /\ ci' = ci + 1
    /\ pc' = "loop"
    /\ UNCHANGED <<cwd, original_cwd, jobs>>
    /\ UNCHANGED <<cases, KEEP_WORK_FILES, all_results, summary, odbOut,
                   eigVars, pkVars, clVars, frontVars>>

\* write_summary 1494-1550: one table line per collected row.
SummaryRows(results) ==
    [k \in 1..Len(results) |->
        [case |-> results[k].case, max_U |-> results[k].max_U,
         max_RF |-> results[k].max_RF, max_LPF |-> results[k].max_LPF]]

WriteSummary ==
    /\ pc = "loop" /\ ci > Len(cases)
    /\ summary' = Some(SummaryRows(all_results))
    /\ pc' = "done"
    /\ steps' = Append(steps, Event("summary", ci))
    /\ UNCHANGED <<cwd, original_cwd, jobs>>
    /\ UNCHANGED <<cases, KEEP_WORK_FILES, ci, all_results, fs, odbOut, log,
                   eigVars, pkVars, clVars, frontVars>>

Next ==
    \/ StartCase \/ BuckleBuild \/ BuckleSubmit \/ BuckleWait \/ BuckleExtract
    \/ RiksBuild \/ RiksSubmit \/ RiksWait \/ RiksExtract
    \/ ExportImages \/ CleanupStep \/ WriteSummary

Spec == Init /\ [][Next]_vars

\* ========================================================================
\* Properties of run_multicase_analysis (under Spec)
\* ========================================================================
\* The case indices of the events of one kind, in the order printed.
EventIndices(ev) ==
    LET s == SelectSeq(log, LAMBDA e : e.ev = ev)
    IN  [k \in 1..Len(s) |-> s[k].i]

\* C1: a case that raises does not stop the later cases from being
\* started, and the rows collected so far are kept, in order, and are the
\* rows of the summary.
C1_PartialFailure ==
    /\ [k \in 1..Len(all_results) |-> all_results[k].case]
          = [k \in 1..Len(EventIndices("export")) |->
                cases[EventIndices("export")[k]]]
    /\ pc = "done" =>
          /\ EventIndices("start") = [k \in 1..Len(cases) |-> k]
          /\ summary = Some(all_results)

C1_Witness ==
    /\ pc = "done"
    /\ Len(cases) = 2
    /\ EventIndices("error") = <<1>>
    /\ EventIndices("start") = <<1, 2>>
    /\ Len(summary[1]) = 1
    /\ summary[1][1].case = cases[2]

\* C2: the summary lists every attempted case, a case that raised
\* included.
C2_SummaryListsEveryCase ==
    pc = "done" =>
        /\ Len(summary[1]) = Len(cases)
        /\ \A k \in 1..Len(cases) : summary[1][k].case = cases[k]

\* ========================================================================
\* Properties of extract_buckling_results (under SpecEigen)
\* ========================================================================
EigRows == eigDir.csv[1]

\* C3: the mode indices of a written eigenvalue table are 1, 2, ..., k.
C3_ModeIndicesContiguous ==
    (eigPc = "done" /\ eigDir.csv # None)
        => \A k \in 1..Len(EigRows) : EigRows[k][1] = k

\* A value offered by frame i for tiers 1/2 that is small in magnitude
\* and close to the mode index i.
SmallAndClose(i, v) ==
    v = None \/ (Abs(v[1]) < EIGEN_MIN_ABS /\ Abs(v[1] - i) <= EIGEN_MODE_GAP)

OffersValue(odb) ==
    \E i \in 1..(Len(odb.frames) - 1) :
        \/ odb.frames[i + 1].fv \notin {None, Some(0)}
        \/ odb.frames[i + 1].desc \notin {None, Some(0)}

AllSmallAndClose(odb) ==
    /\ odb.exists /\ odb.opens
    /\ OffersValue(odb)
    /\ \A i \in 1..(Len(odb.frames) - 1) :
          /\ SmallAndClose(i, odb.frames[i + 1].fv)
          /\ SmallAndClose(i, odb.frames[i + 1].desc)

\* The rows the solver log alone yields, written out from the log model.
LogRows(odb) ==
    IF odb.dat = None THEN <<>>
    ELSE LET rows == SelectSeq(odb.dat[1], LAMBDA ln : ln.kind = "row")
         IN  IF \E k \in 1..Len(odb.dat[1]) : odb.dat[1][k].kind = "header"
             THEN [k \in 1..Len(rows) |-> <<rows[k].mode, rows[k].val>>]
             ELSE <<>>

C5_MarkerWhenNothingExtracted ==
    (eigPc = "done" /\ eigDir.csv = None) => eigDir.warning

\* ========================================================================
\* Properties of find_peak_lpf_frame_index (under SpecPeak)
\* ========================================================================
\* The centred 3-point moving average of the sign-normalised series, times
\* 6, written out independently of YUse for the statements below.
SmoothedTimes6(y, k) ==
    LET s == IF SeqMax(y, 1) >= Abs(SeqMin(y, 1)) THEN 1 ELSE -1
        n == Len(y)
    IN  IF n < 3 THEN 6 * s * y[k]
        ELSE IF k = 1 THEN 3 * s * (y[1] + y[2])
        ELSE IF k = n THEN 3 * s * (y[n - 1] + y[n])
        ELSE 2 * s * (y[k - 1] + y[k] + y[k + 1])

SmoothedMaxTimes6(y) ==
    CHOOSE m \in {SmoothedTimes6(y, k) : k \in 1..Len(y)} :
        \A k \in 1..Len(y) : SmoothedTimes6(y, k) <= m

PkRes == pkOut[1].res

\* 0-based index of the first point of value v.
FirstIndexOf(y, v) == (CHOOSE k \in 1..Len(y) :
                          y[k] = v /\ \A j \in 1..(k - 1) : y[j] # v) - 1

\* The frame rendered for series index c (0-based): the frame whose value
\* is the history time of c.
FrameOfIndex(in, c) == in.t[c + 1]

\* C6: on a plateau series the selector answers peak_before_drop at the
\* first plateau point or within the smoothing half-window of it.
C6_PlateauPeakBeforeDrop ==
    (pkPc = "done" /\ pkIn.y \in PlateauSeries)
        => /\ PkRes.type = Some("peak_before_drop")
           /\ PkRes.chosen # None
           /\ Abs(PkRes.chosen[1] - FirstIndexOf(pkIn.y, 100))
                 <= LPF_SMOOTH_WINDOW \div 2
           /\ PkRes.lpf = Some(100)
           /\ PkRes.frame = FrameOfIndex(pkIn, PkRes.chosen[1])

C6_Witness ==
    /\ pkPc = "done"
    /\ pkIn.y = <<0, 50, 100, 100, 100, 100, 100, 10, 10, 10>>
    /\ PkRes.type = Some("peak_before_drop")
    /\ PkRes.chosen = Some(3)

NonDecreasing(y) == \A k \in 1..(Len(y) - 1) : y[k] <= y[k + 1]
StrictlyIncreasing(y) == \A k \in 1..(Len(y) - 1) : y[k] < y[k + 1]

LastIndexGlobalMax ==
    /\ PkRes.type = Some("global_max")
    /\ PkRes.chosen = Some(Len(pkIn.y) - 1)
    /\ PkRes.frame = Len(pkIn.frames) - 1

\* C7 as claimed: every non-decreasing series, of either sign, yields the
\* last index with global_max.
C7_Original ==
    (pkPc = "done" /\ Len(pkIn.y) > 0 /\ NonDecreasing(pkIn.y))
        => LastIndexGlobalMax

\* C7: a strictly increasing series whose dominant sign is positive and
\* whose smoothed maximum is above the near-zero floor yields the last
\* index with global_max.
C7_StrictlyIncreasingLast ==
    (pkPc = "done" /\ Len(pkIn.y) > 0 /\ StrictlyIncreasing(pkIn.y)
     /\ SeqMax(pkIn.y, 1) >= Abs(SeqMin(pkIn.y, 1))
     /\ \E k \in 1..Len(pkIn.y) : SmoothedTimes6(pkIn.y, k) > 0)
        => LastIndexGlobalMax

C7_Witness ==
    /\ pkPc = "done"
    /\ pkIn.y = <<-2, 0, 1, 2, 3>>
    /\ PkRes.type = Some("global_max")
    /\ PkRes.chosen = Some(4)

\* C8: a chosen peak_before_drop peak has a smoothed value of at least 0.6
\* of the global smoothed maximum; on the early-spike series index 20 is
\* selected with global_max.
C8_MinPeakFraction ==
    pkPc = "done" =>
        /\ PkRes.type = Some("peak_before_drop")
              => 10 * SmoothedTimes6(pkIn.y, PkRes.chosen[1] + 1)
                   >= 6 * SmoothedMaxTimes6(pkIn.y)
        /\ pkIn.y \in SpikeSeries
              => /\ PkRes.type = Some("global_max")
                 /\ PkRes.chosen = Some(20)
                 /\ PkRes.lpf = Some(100)
                 /\ PkRes.frame = FrameOfIndex(pkIn, 20)

C8_Witness ==
    /\ pkPc = "done"
    /\ pkIn.y = SpikeOf(0)
    /\ PkRes.chosen = Some(20)
    /\ PkRes.type = Some("global_max")

\* C9: a series whose smoothed maximum is at or below the floor gets a
\* no-peak answer and no frame is rendered for it.
C9_NoPeakNoFrame ==
    (pkPc = "done" /\ Len(pkIn.y) > 0 /\ Len(pkIn.frames) > 0
     /\ \A k \in 1..Len(pkIn.y) : SmoothedTimes6(pkIn.y, k) <= 0)
        => /\ PkRes.type = None /\ PkRes.lpf = None /\ PkRes.time = None
           /\ pkOut[1].rendered = {}

\* ========================================================================
\* Properties of cleanup_case_work_dir (under SpecCleanup)
\* ========================================================================
TablesExist(c) == c.dir.csv # None /\ c.riksCsv

NmParams == nmOut[1].val

\* C11: a parameter set with segment count 2 and selector "LC4" resolves
\* to exactly one load case, the pure shear case LC4_ShearY.
C11_LC4SelectsPureShear ==
    (/\ nmCases # None
     /\ NmParams["nSeg"] = IntV(2)
     /\ NmParams["enableCases"] = StrV(<<"LC4">>))
    => nmCases[1] = Outcome(TRUE, <<"LC4_ShearY">>, "")

\* The three load factors as get_enabled_cases reads them.
Factor(k) ==
    LoadFactor(NmParams, <<"cf1f", "cf2f", "cf3f">>[k],
               <<"FrefX", "FrefY", "FrefZ">>[k])

NonZero(k) == Factor(k).v # 0

\* The case the inference rule of the specification names.
InferenceRule ==
    IF NonZero(3) /\ ~NonZero(2) /\ ~NonZero(1) THEN "LC1_Axial"
    ELSE IF ~NonZero(3) /\ NonZero(2) /\ ~NonZero(1) THEN "LC4_ShearY"
    ELSE IF ~NonZero(3) /\ ~NonZero(2) /\ NonZero(1) THEN "LC5_ShearX"
    ELSE IF NonZero(3) /\ NonZero(2) /\ ~NonZero(1) THEN "LC2_Axial_ShearY"
    ELSE IF NonZero(3) /\ ~NonZero(2) /\ NonZero(1) THEN "LC3_Axial_ShearX"
    ELSE "LC1_Axial"

\* C12: with a selector that is empty or resolves to nothing, and numeric
\* load factors, the case returned is the one the inference rule names:
\* pure axial, pure shear on the loaded axis, the combined case of the
\* axial factor and one shear factor, pure axial otherwise.
C12_InferenceFromLoadFactors ==
    (/\ nmCases # None
     /\ SelectedCases(NmParams) = <<>>
     /\ \A k \in 1..3 : IsNumber(Factor(k)))
    => nmCases[1] = Outcome(TRUE, <<InferenceRule>>, "")

\* C13: get_enabled_cases returns, for every normalized record, a list of
\* at least one case of the registry, and never raises.
C13_EnabledCasesTotal ==
    nmCases # None =>
        /\ nmCases[1].ok
        /\ Len(nmCases[1].val) >= 1
        /\ \A k \in 1..Len(nmCases[1].val) :
              nmCases[1].val[k] \in DOMAIN LOAD_CASES

\* C14: normalizing a normalized record returns the same record, field
\* for field.
C14_NormalizeIdempotent ==
    nmAgain # None => nmAgain[1] = nmOut[1]

OnlyLegacyNames(row) ==
    \A k \in 1..Len(row) :
        /\ row[k][1] \in DOMAIN LEGACY_MAP
        /\ LEGACY_MAP[row[k][1]] # row[k][1]

\* C15: a row that uses only legacy names and the row with the same values
\* under the canonical names normalize to the same result.
C15_LegacyAliasRoundTrip ==
    (nmTwin # None /\ OnlyLegacyNames(nmRow)) => nmTwin[1] = nmOut[1]

\* C16: every record normalize_params returns has an integer segment
\* count of at least 1; any other segment count is rejected with an error.
C16_SegmentCountPositive ==
    (nmOut # None /\ nmOut[1].ok) =>
        /\ NmParams["nSeg"].t = "int"
        /\ NmParams["nSeg"].v >= Scale

\* ========================================================================
\* Properties of main and read_parameters_from_csv (under SpecBatch)
\* ========================================================================
\* C17: with a batch file present, main never ends on a row it could not
\* read, and run_multicase_analysis is called for every row that
\* normalize_params accepts.
C17_MalformedRowNotFatal ==
    (btFile # None /\ btPc \in {"done", "crashed"}) =>
        /\ btPc = "done"
        /\ \A k \in 1..Len(btFile[1]) :
              normalize_params(btFile[1][k]).ok =>
                 \E j \in 1..Len(btRuns) :
                    btRuns[j].p = normalize_params(btFile[1][k]).val

\* C18: with the batch file absent or without rows, exactly one parameter
\* set is processed, the record normalize_params returns for an empty row.
C18_AbsentFileDefaultSet ==
    (btFile \in {None, Some(<<>>)} /\ btPc = "done") =>
        /\ Len(btRuns) = 1
        /\ btRuns[1].p = normalize_params(<<>>).val

\* ========================================================================
\* Working directory of the phases (under Spec)
\* ========================================================================
\* Between os.chdir(case_work_dir) and the finally block of a phase.
InScratch(p) ==
    p \in {"buckle_submit", "buckle_wait", "riks_submit", "riks_wait"}

ScratchFolders == {<<"work", c>> : c \in CaseNames}

\* C19: when the job part of a phase is left, by return or by an error of
\* mdb.Job, submit or waitForCompletion, the current folder is the one
\* recorded when the phase entered the scratch folder; outside that part
\* the current folder is never a scratch folder.
C19_WorkingDirectoryRestored ==
    [][/\ (InScratch(pc) /\ ~InScratch(pc')) => cwd' = original_cwd[1]
       /\ ~InScratch(pc') => cwd' \notin ScratchFolders]_vars

C19_Witness ==
    /\ pc = "loop" /\ ci = 2
    /\ log = <<Event("start", 1), Event("error", 1)>>
    /\ original_cwd = Some(WORK_DIR)
    /\ cwd = WORK_DIR

\* ========================================================================
\* Properties of wait_for_viewer_lock (under SpecViewer)
\* ========================================================================
ViewerPolls == Len(vwSeen)

ExportDecided == vwPc \in {"started", "skipped"}

\* C20: the wait polls at most max_wait_sec // check_interval times; it
\* returns at the first poll that sees no viewer, so every earlier poll
\* saw one; it gives up only after the full number of polls, each having
\* seen a viewer; it always ends; and whether the viewer is then started
\* depends on the export script and the archives only, not on how the wait
\* ended.
C20_BoundedViewerWait ==
    /\ [](/\ ViewerPolls <= vwArgs.max_wait_sec \div vwArgs.check_interval
          /\ \A k \in 1..(ViewerPolls - 1) : vwSeen[k]
          /\ (ViewerPolls > 0 /\ ~vwSeen[ViewerPolls]) => vwRet = Some(TRUE)
          /\ vwRet = Some(TRUE) => (ViewerPolls > 0 /\ ~vwSeen[ViewerPolls])
          /\ vwRet = Some(FALSE) =>
                /\ ViewerPolls = vwArgs.max_wait_sec \div vwArgs.check_interval
                /\ \A k \in 1..ViewerPolls : vwSeen[k]
          /\ ExportDecided =>
                (vwPc = "started" <=> (vwEnv.script /\ vwEnv.odb)))
    /\ <>ExportDecided

C20_Witness ==
    /\ vwArgs = DefaultWait
    /\ ViewerPolls = 60
    /\ vwRet = Some(FALSE)
    /\ vwPc = "started"

\* ========================================================================
\* run_riks_analysis 1065-1083: the imperfection directive, and
\* insert_keyword_smart 708-729
\* ========================================================================
MaxBlocks == 3

\* A keyword block: its text as a list of pieces, and the directive it
\* carries when it is the one built at line 1079-1081.
Block(text) == [text |-> text, directive |-> None]

\* str.upper() of a piece of block text.
upper(piece) ==
    CASE piece = "** step: step-1" -> "** STEP: STEP-1"
      [] piece = "** STEP: Step-1" -> "** STEP: STEP-1"
      [] piece = "*Step" -> "*STEP"
      [] piece = "*Heading" -> "*HEADING"
      [] OTHER -> piece

\* anchor_text.upper() in blk.upper(), line 715: the anchor is a run of
\* consecutive pieces of the block.
Contains(blk, anchor_text) ==
    \E i \in 1..(Len(blk.text) - Len(anchor_text) + 1) :
        \A j \in 1..Len(anchor_text) :
            upper(blk.text[i + j - 1]) = upper(anchor_text[j])

Matches(sieBlocks, anchor_text) ==
    {i \in 1..Len(sieBlocks) : Contains(sieBlocks[i], anchor_text)}

AnchorIndex_last(sieBlocks, anchor_text) ==
    CHOOSE i \in Matches(sieBlocks, anchor_text) :
        \A j \in Matches(sieBlocks, anchor_text) : j <= i

\* Line 714-724: the loop stops at the first block holding the anchor.
AnchorIndex(sieBlocks, anchor_text) ==
    SetMin(Matches(sieBlocks, anchor_text))

\* kb.insert(position, text): the block list with text put at 0-based
\* position.
KbInsert(sieBlocks, position, text) ==
    SubSeq(sieBlocks, 1, position) \o <<text>>
    \o SubSeq(sieBlocks, position + 1, Len(sieBlocks))

\* kb.delete(position)
KbDelete(sieBlocks, position) ==
    SubSeq(sieBlocks, 1, position)
    \o SubSeq(sieBlocks, position + 2, Len(sieBlocks))

\* Line 708-729; i is the 0-based index of the loop.
insert_keyword_smart(sieBlocks, anchor_text, new_content, position) ==
    IF Matches(sieBlocks, anchor_text) # {}
    THEN LET i == AnchorIndex(sieBlocks, anchor_text) - 1
         IN  [blocks |->
                 IF position = "after"
                 THEN KbInsert(sieBlocks, i + 1, new_content)
                 ELSE IF position = "before"
                 THEN KbInsert(sieBlocks, i, new_content)
                 ELSE KbDelete(KbInsert(sieBlocks, i, new_content), i + 1),
              warning |-> FALSE]
    ELSE [blocks |-> KbInsert(sieBlocks, Len(sieBlocks), new_content),
          warning |-> TRUE]

\* Number of decimal digits of n > 0.
RECURSIVE DigitCount(_)
DigitCount(n) == IF n < 10 THEN 1 ELSE 1 + DigitCount(n \div 10)

\* '%g' % x, line 1081: the number the text stands for, x kept to six
\* significant digits (the inputs used have no tie to break).
FormatG(x) ==
    LET a == Abs(x)
        unit == IF a = 0 \/ DigitCount(a) <= 6 THEN 1
                ELSE 10 ^ (DigitCount(a) - 6)
        r == ((a + unit \div 2) \div unit) * unit
    IN  IF x < 0 THEN 0 - r ELSE r

ImperfMode_fromInput(p) == p["imperfMode"].v \div Scale

\* Line 1066: the mode index does not look at p.
ImperfMode(p) == 1

\* Line 1067.
ImperfAmp(p) ==
    IF "imperfAmp" \in DOMAIN p THEN p["imperfAmp"] ELSE FloatV(3 * Scale)

\* Line 1072-1075: with no folder in the job name both branches give the
\* job name.
imperfection_file == "buckle_job_name"

\* Line 1079-1081.
ImperfectionContent(p) ==
    [text |-> <<"** ---", "*IMPERFECTION">>,
     directive |-> Some([FILE |-> imperfection_file,
                         STEP |-> 1,
                         mode |-> ImperfMode(p),
                         amp |-> FormatG(ImperfAmp(p).v)])]

STEP_ANCHOR == <<"** STEP: Step-1">>

\* ---- inputs ----
BlockTexts == {<<"*Heading">>,
               <<"** STEP: Step-1", "*Step">>,
               <<"** step: step-1">>,
               <<"** STEP: Step-1", "0">>,
               <<"*Step">>}

BlockLists ==
    UNION {[1..n -> {Block(t) : t \in BlockTexts}] : n \in 0..MaxBlocks}

ModeCells == {None, Some(<<"1">>), Some(<<"2">>), Some(<<"3">>)}

AmpCells == {None, Some(<<"3">>), Some(<<"2", ".", "5">>),
             Some(<<"1", "2", "3", ".", "4", "5", "6", "7">>),
             Some(<<"abc">>)}

ImperfRows == {OptItem("imperfMode", m) \o OptItem(k, a) :
                  m \in ModeCells, a \in AmpCells,
                  k \in {"imperfAmp", "nodedeform"}}

Anchors == {STEP_ANCHOR, <<"*Step">>, <<"*Material">>}

InitKeyword ==
    /\ kbBlocks \in BlockLists
    /\ \/ /\ kbPc = "riks"
          /\ kbArgs \in {Some([row |-> r, p |-> normalize_params(r).val,
                               anchor_text |-> STEP_ANCHOR,
                               position |-> "before"]) : r \in ImperfRows}
       \/ /\ kbPc = "call"
          /\ kbArgs \in {Some([row |-> <<>>, p |-> DEFAULT_PARAMS,
                               anchor_text |-> a, position |-> pos]) :
                            a \in Anchors,
                            pos \in {"before", "after", "replace"}}
    /\ kbOut = None
    /\ EigIdle /\ PkIdle /\ ClIdle /\ OrchIdle /\ ParIdle /\ BatIdle /\ VwIdle
    /\ CrvIdle

kbOther == <<eigVars, pkVars, clVars, orchVars, parVars, batVars, vwVars,
             crvVars>>

\* Line 1065-1083.  '%.2f' % imperfAmp at line 1068 raises TypeError for an
\* amplitude that is no number, before anything is inserted.
InjectImperfection ==
    /\ kbPc = "riks"
    /\ LET p == kbArgs[1].p
       IN  IF ~IsNumber(ImperfAmp(p))
           THEN /\ kbOut' = Some([raised |-> TRUE, warning |-> FALSE,
                                  content |-> None])
                /\ UNCHANGED kbBlocks
           ELSE LET r == insert_keyword_smart(kbBlocks, STEP_ANCHOR,
                                              ImperfectionContent(p),
                                              "before")
                IN  /\ kbBlocks' = r.blocks
                    /\ kbOut' = Some([raised |-> FALSE,
                                      warning |-> r.warning,
                                      content |->
                                          Some(ImperfectionContent(p))])
    /\ kbPc' = "injected"
    /\ UNCHANGED <<kbArgs, kbOther>>

\* insert_keyword_smart called on its own.
InsertKeyword ==
    /\ kbPc = "call"
    /\ LET r == insert_keyword_smart(kbBlocks, kbArgs[1].anchor_text,
                                     Block(<<"*New">>), kbArgs[1].position)
       IN  /\ kbBlocks' = r.blocks
           /\ kbOut' = Some([raised |-> FALSE, warning |-> r.warning,
                             content |-> Some(Block(<<"*New">>))])
    /\ kbPc' = "inserted"
    /\ UNCHANGED <<kbArgs, kbOther>>

NextKeyword == InjectImperfection \/ InsertKeyword

SpecKeyword == InitKeyword /\ [][NextKeyword]_vars

\* The directives the block list holds.
Directives == {kbBlocks[i].directive[1] :
                  i \in {j \in 1..Len(kbBlocks) : kbBlocks[j].directive # None}}

Injected == kbPc = "injected" /\ ~kbOut[1].raised

ConfiguredAmp == ImperfAmp(kbArgs[1].p).v

\* C21 as written: every directive injected carries mode index 1 and the
\* amplitude of the parameter set.
C21_Original ==
    Injected => \A d \in Directives : d.mode = 1 /\ d.amp = ConfiguredAmp

\* C21: the run injects exactly one directive; it names mode 1 whatever
\* imperfMode the input row gave, and its amplitude is the configured one
\* written with '%g', that is kept to six significant digits: the
\* configured amplitude itself when it has no more than six.
C21_ModeOneAmplitudeSixDigits ==
    Injected =>
        /\ Cardinality({i \in 1..Len(kbBlocks) :
                           kbBlocks[i].directive # None}) = 1
        /\ \A d \in Directives :
              /\ d.mode = 1
              /\ d.amp = FormatG(ConfiguredAmp)
              /\ Abs(ConfiguredAmp) < 10 ^ 6 => d.amp = ConfiguredAmp
              /\ Abs(d.amp - ConfiguredAmp) * 2 * (10 ^ 5) <= Abs(ConfiguredAmp)

C21_Witness ==
    /\ Injected
    /\ kbArgs[1].p["imperfMode"] = IntV(3)
    /\ ConfiguredAmp = 25 * (Scale \div 10)
    /\ \E d \in Directives : d.mode = 1 /\ d.amp = ConfiguredAmp

InsertedBefore ==
    /\ kbPc \in {"call", "riks"} /\ kbPc' \in {"inserted", "injected"}
    /\ kbArgs[1].position = "before"

StepOrder == <<"buckle_submitted", "buckle_completed", "eigen_extraction",
               "riks_submitted", "riks_completed", "curve_extraction",
               "visualization", "cleanup", "summary">>

Rank(ev) == CHOOSE r \in 1..Len(StepOrder) : StepOrder[r] = ev

\* The step that must have been taken, for the same case, before ev.
Needs(ev) ==
    CASE ev = "buckle_completed" -> <<"buckle_submitted">>
      [] ev = "eigen_extraction" -> <<"buckle_completed">>
      [] ev = "riks_submitted" -> <<"buckle_completed">>
      [] ev = "riks_completed" -> <<"riks_submitted">>
      [] ev = "curve_extraction" -> <<"riks_completed">>
      [] ev = "visualization" -> <<"riks_completed">>
      [] ev = "cleanup" -> <<"visualization">>
      [] OTHER -> <<>>

\* C22: the steps of a case are taken in the order buckling submitted,
\* buckling completed, eigenvalue extraction, Riks submitted, Riks
\* completed, curve extraction, visualization, cleanup, each one after the
\* step it builds on, the cases one after the other and the summary after
\* all of them; at no time is more than one job submitted and not ended,
\* and none is left when a case or the run is over.
C22_StepsInOrderOneJob ==
    /\ \A a, b \in 1..Len(steps) :
          a < b => \/ steps[a].i < steps[b].i
                   \/ /\ steps[a].i = steps[b].i
                      /\ Rank(steps[a].ev) < Rank(steps[b].ev)
    /\ \A b \in 1..Len(steps) :
          \A k \in 1..Len(Needs(steps[b].ev)) :
              \E a \in 1..(b - 1) : /\ steps[a].i = steps[b].i
                                    /\ steps[a].ev = Needs(steps[b].ev)[k]
    /\ \A b \in 1..Len(steps) : steps[b].ev = "summary" => b = Len(steps)
    /\ (summary # None) =>
           steps # <<>> /\ steps[Len(steps)].ev = "summary"
    /\ Cardinality(jobs) <= 1
    /\ pc \in {"loop", "done"} => jobs = {}

C22_Witness ==
    /\ pc = "done"
    /\ Len(cases) = 2
    /\ \A r \in 1..8 : \E a \in 1..Len(steps) :
          steps[a].i = 1 /\ steps[a].ev = StepOrder[r]
    /\ \E a \in 1..Len(steps) : steps[a].i = 2 /\ steps[a].ev = "riks_completed"
    /\ steps[Len(steps)].ev = "summary"

\* C28: while the Riks job is submitted, the buckling archive its
\* imperfection directive names is in the scratch folder of the case.
C28_ArchiveExistsAtRiksSubmit ==
    pc = "riks_wait" => fs[case_name].buckleOdb

\* ========================================================================
\* The fallback chain and the validation of extract_buckling_results
\* ========================================================================
\* The batch tiers 1 and 2 hand to the validation.
OdbBatch(odb) ==
    IF Tier1(odb.frames) # <<>> THEN Tier1(odb.frames) ELSE Tier2(odb.frames)

\* C23: the table written by a call holds the whole batch of one tier and
\* nothing else: the frame values, or the frame descriptions and then no
\* frame value was accepted, or the rows of the solver log and then the
\* archive could not be read, tiers 1 and 2 gave nothing, or their batch
\* was discarded.
C23_OneTierInOrder ==
    (eigPc = "done" /\ eigOdb.exists) =>
        LET t1 == Tier1(eigOdb.frames)
            t2 == Tier2(eigOdb.frames)
            t3 == LogRows(eigOdb)
        IN  IF eigDir.csv = None THEN eigDir.warning
            ELSE \/ /\ eigOdb.opens /\ t1 # <<>>
                    /\ eigDir.csv = Some(t1)
                 \/ /\ eigOdb.opens /\ t1 = <<>> /\ t2 # <<>>
                    /\ eigDir.csv = Some(t2)
                 \/ /\ t3 # <<>>
                    /\ eigDir.csv = Some(t3)
                    /\ \/ ~eigOdb.opens
                       \/ t1 = <<>> /\ t2 = <<>>
                       \/ Suspicious(OdbBatch(eigOdb))

C23_Witness ==
    /\ eigPc = "done"
    /\ eigOdb.opens
    /\ Len(eigOdb.frames) = 3
    /\ eigOdb.frames[2].fv = Some(50)
    /\ Tier1(eigOdb.frames) = <<>>
    /\ eigDir.csv = Some(<< <<1, 600>>, <<2, 700>> >>)
    /\ eigDir.csv = Some(Tier2(eigOdb.frames))
    /\ LogRows(eigOdb) = << <<1, 700>>, <<2, 800>> >>

\* C24 as written: a batch of tier 1 or 2 holding a value that is not both
\* small and close to its mode index is kept and written.
C24_BatchKeptUnlessAllSmallAndClose ==
    (/\ eigPc = "done" /\ eigOdb.exists /\ eigOdb.opens
     /\ \E k \in 1..Len(OdbBatch(eigOdb)) :
           ~SmallAndClose(OdbBatch(eigOdb)[k][1],
                          Some(OdbBatch(eigOdb)[k][2])))
        => eigDir.csv = Some(OdbBatch(eigOdb))

LargeAndFar(i, v) ==
    Abs(v) > EIGEN_MIN_ABS /\ Abs(v - i) > EIGEN_MODE_GAP

\* C24: the batch of tier 1 or 2 is kept and written exactly when one of
\* its values is both large (above 100 in magnitude) and far from its mode
\* index (by more than 10); a batch whose every value is small or close,
\* such as 50 for mode 1, is discarded and the solver log decides.
C24_KeptIffSomeValueLargeAndFar ==
    (eigPc = "done" /\ eigOdb.exists /\ eigOdb.opens
     /\ OdbBatch(eigOdb) # <<>>)
        => IF \E k \in 1..Len(OdbBatch(eigOdb)) :
                  LargeAndFar(OdbBatch(eigOdb)[k][1], OdbBatch(eigOdb)[k][2])
           THEN eigDir.csv = Some(OdbBatch(eigOdb))
           ELSE IF LogRows(eigOdb) # <<>>
           THEN eigDir.csv = Some(LogRows(eigOdb))
           ELSE eigDir.csv = None /\ eigDir.warning

C24_Witness ==
    /\ eigPc = "done"
    /\ eigOdb.opens
    /\ OdbBatch(eigOdb) = << <<1, 50>> >>
    /\ eigOdb.dat = None
    /\ eigDir.csv = None
    /\ eigDir.warning

\* ========================================================================
\* Reruns of a case: extract_buckling_results called again and again on
\* the same results folder, each time on the archive the new run left
\* ========================================================================
RerunOdbs == {o \in OdbChoices : Len(o.frames) <= 2}

InitRerun ==
    /\ eigOdb \in RerunOdbs
    /\ eigDir = EmptyDir
    /\ eigPc = "call"
    /\ PkIdle /\ ClIdle /\ OrchIdle /\ FrontIdle

\* The case is run again: the new job leaves its archive (or none).
RunAgain ==
    /\ eigPc = "done"
    /\ eigOdb' \in RerunOdbs
    /\ eigPc' = "call"
    /\ UNCHANGED <<eigDir, pkVars, clVars, orchVars, frontVars>>

NextRerun == ExtractBuckling \/ RunAgain

SpecRerun == InitRerun /\ [][NextRerun]_vars

TableIsFresh ==
    /\ eigOdb.exists
    /\ Eigenvalues(eigOdb) # <<>>
    /\ eigDir.csv = Some(Eigenvalues(eigOdb))

\* C29: the results folder never holds both the table and the marker; a
\* table in it after a call was written by that call, so the table the
\* cleanup check accepts is never one left over from an earlier run.
C29_TableFreshNoMarker ==
    /\ ~(eigDir.csv # None /\ eigDir.warning)
    /\ (eigPc = "done" /\ eigDir.csv # None) => TableIsFresh
    /\ (/\ eigPc = "done"
        /\ CleanupVerified([work |-> TRUE, dir |-> eigDir, riksCsv |-> TRUE,
                            png |-> 1], 1)) => TableIsFresh

\* ========================================================================
\* The chosen index of find_peak_lpf_frame_index
\* ========================================================================
\* Index k (1-based) is a local peak of the smoothed series that reaches
\* 0.6 of its maximum.
IsSmoothedPeak(y, k) ==
    /\ 1 < k /\ k < Len(y)
    /\ SmoothedTimes6(y, k) >= SmoothedTimes6(y, k - 1)
    /\ SmoothedTimes6(y, k) >= SmoothedTimes6(y, k + 1)
    /\ 10 * SmoothedTimes6(y, k) >= 6 * SmoothedMaxTimes6(y)

\* Three consecutive smoothed values after k are at most 0.8 of the one
\* at k.
DropsAfter(y, k) ==
    \E j \in (k + 1)..(Len(y) - 2) :
        \A m \in j..(j + 2) :
            10 * SmoothedTimes6(y, m) <= 8 * SmoothedTimes6(y, k)

PassingPeaks(y) ==
    {k \in 1..Len(y) : IsSmoothedPeak(y, k) /\ DropsAfter(y, k)}

ChoosesGlobalMax(y) ==
    /\ PkRes.type = Some("global_max")
    /\ PkRes.chosen # None
    /\ SmoothedTimes6(y, PkRes.chosen[1] + 1) = SmoothedMaxTimes6(y)

ChoosesFirstPassingPeak(y) ==
    /\ PkRes.type = Some("peak_before_drop")
    /\ PkRes.chosen # None
    /\ PkRes.chosen[1] + 1 \in PassingPeaks(y)
    /\ \A k \in PassingPeaks(y) : PkRes.chosen[1] + 1 <= k

\* C25 as written: peak_before_drop names the first local peak that
\* passes the test, and every series without such a peak gets the index of
\* its smoothed maximum with global_max.
C25_Original ==
    (pkPc = "done" /\ pkIn.y # <<>>) =>
        IF PassingPeaks(pkIn.y) # {} THEN ChoosesFirstPassingPeak(pkIn.y)
        ELSE ChoosesGlobalMax(pkIn.y)

\* C25: for a series whose smoothed maximum is above the near-zero floor,
\* peak_before_drop is answered exactly when a local peak of the smoothed
\* series (at least both neighbours, at least 0.6 of the maximum) is
\* followed by 3 consecutive smoothed values of at most 0.8 of it, and the
\* index chosen is the first such peak; without one (none passes, or the
\* series is shorter than 3) the first index of the smoothed maximum is
\* chosen with global_max.  At or below the floor nothing is chosen.
C25_FirstPassingPeakElseGlobalMax ==
    (pkPc = "done" /\ pkIn.y # <<>>) =>
        IF SmoothedMaxTimes6(pkIn.y) <= 0
        THEN PkRes.type = None /\ PkRes.chosen = None
        ELSE IF PassingPeaks(pkIn.y) # {}
        THEN ChoosesFirstPassingPeak(pkIn.y)
        ELSE /\ ChoosesGlobalMax(pkIn.y)
             /\ \A k \in 1..PkRes.chosen[1] :
                   SmoothedTimes6(pkIn.y, k) < SmoothedMaxTimes6(pkIn.y)

C25_Witness ==
    /\ pkPc = "done"
    /\ pkIn.y = <<1, 3, 3, -2, -2>>
    /\ PassingPeaks(pkIn.y) = {2}
    /\ PkRes.type = Some("peak_before_drop")
    /\ PkRes.chosen = Some(1)

\* ========================================================================
\* extract_riks_results 1194-1226: the rows of riks_curve.csv
\* ========================================================================
MaxHistLen == 2

\* The history outputs read at line 1199-1202, in the order of the columns.
SeriesKeys == <<"LPF", "U1", "U2", "U3", "UR1", "UR2", "UR3",
                "RF1", "RF2", "RF3">>

\* Line 1194-1197: the data of an output, [] when the region or the output
\* is missing; only the length matters for the rows.
_series(hist, key) == IF key \in DOMAIN hist THEN hist[key] ELSE 0

\* Line 1204-1206.
RowCount(hist) ==
    LET lpf == _series(hist, "LPF")
        n == Min2(IF lpf > 0 THEN lpf ELSE 10 ^ 9,
                  Min2(_series(hist, "U1"), _series(hist, "RF1")))
    IN  IF n = 10 ^ 9
        THEN Min2(_series(hist, "U1"), _series(hist, "RF1"))
        ELSE n

\* Line 1219-1225: row i (0-based) reads x[i] of every series that is not
\* empty; only the read of the LPF is guarded by i < len(lpf).
ReadsPastEnd(hist, i) ==
    \E k \in 2..Len(SeriesKeys) :
        /\ _series(hist, SeriesKeys[k]) > 0
        /\ i >= _series(hist, SeriesKeys[k])

\* Line 1220, 1222: the LPF column of row i.
LpfCell(hist, i) ==
    IF _series(hist, "LPF") > 0 /\ i < _series(hist, "LPF")
    THEN "value" ELSE ""

\* Line 1216-1226: the rows written before the loop ends or x[i] raises
\* IndexError.
CurveRows(hist) ==
    LET n == RowCount(hist)
        bad == {i \in 0..(n - 1) : ReadsPastEnd(hist, i)}
        m == IF bad = {} THEN n ELSE SetMin(bad)
    IN  [rows |-> [k \in 1..m |-> [i |-> k, LPF |-> LpfCell(hist, k - 1)]],
         raised |-> bad # {}]

Histories == [{SeriesKeys[k] : k \in 1..Len(SeriesKeys)} -> 0..MaxHistLen]

InitCurve ==
    /\ crvIn \in Histories
    /\ crvOut = None
    /\ crvPc = "call"
    /\ EigIdle /\ PkIdle /\ ClIdle /\ OrchIdle /\ ParIdle /\ BatIdle /\ VwIdle
    /\ KbIdle

\* extract_riks_results on an archive that opens and has Step-1.
ExtractRiksCurve ==
    /\ crvPc = "call"
    /\ crvOut' = Some(CurveRows(crvIn))
    /\ crvPc' = "done"
    /\ UNCHANGED <<crvIn, kbVars, eigVars, pkVars, clVars, orchVars, parVars,
                   batVars, vwVars>>

NextCurve == ExtractRiksCurve

SpecCurve == InitCurve /\ [][NextCurve]_vars

Available == {k \in DOMAIN crvIn : crvIn[k] > 0}

ShortestAvailable ==
    IF Available = {} THEN 0
    ELSE CHOOSE n \in {crvIn[k] : k \in Available} :
             \A k \in Available : n <= crvIn[k]

\* C26: the call reads no series past its end and writes exactly n rows
\* numbered 1..n, n the length of the shortest series that is there; a
\* missing LPF series leaves the LPF column empty and does not reduce n.
C26_RowsOfShortestSeries ==
    crvPc = "done" =>
        /\ ~crvOut[1].raised
        /\ Len(crvOut[1].rows) = ShortestAvailable
        /\ \A k \in 1..Len(crvOut[1].rows) :
              /\ crvOut[1].rows[k].i = k
              /\ crvIn["LPF"] = 0 => crvOut[1].rows[k].LPF = ""

\* ========================================================================
\* The folders of a parameter set
\* ========================================================================
\* Line 1446-1447, 1496: the scratch and results folder of a case and the
\* summary file of the model.
CaseFolder(root, model_name, case) == <<root, model_name, case>>

\* C30: two parameter sets of the batch that differ get different folders
\* for a load case (their model names differ).
C30_DistinctFolders ==
    \A i, j \in 1..Len(btRuns) :
        (/\ i < j
         /\ btRuns[i].p # btRuns[j].p
         /\ btRuns[i].model_name # None
         /\ btRuns[j].model_name # None)
            => \A root \in {"work", "results"}, c \in DOMAIN LOAD_CASES :
                  CaseFolder(root, btRuns[i].model_name[1], c)
                      # CaseFolder(root, btRuns[j].model_name[1], c)

====
